---- MODULE Spec2Model ----
(***************************************************************************)
(* Model of the optics simulators of this repository.                      *)
(*                                                                         *)
(* The repository holds independent programs, each with its own entry      *)
(* point:                                                                  *)
(*   calc : src/punto2/diffraction_calculator.py  (pure functions)         *)
(*   app  : src/diffraction_gui.py                (DiffractionApp, Tk)     *)
(*   sim  : src/punto2/Punto_2.py                 (DiffractionSimulator)   *)
(*   fft  : src/punto2/fraunhofer_fft_gui.py      (FFT simulator)          *)
(*   dft  : calculate_diffraction_pattern of diffraction_calculator.py     *)
(*   patron : calcular_patron_fresnel of src/punto3/Punto_3_Fresnel.py     *)
(*   fres : graficar_difraccion_interactiva of Punto_3_Fresnel.py          *)
(*   ana  : FraunhoferDiffraction.calculate_intensity, src/punto1/Punto_1.py *)
(*   dis  : create_disorder_aperture of Punto_2.py                         *)
(*   frame : create_aperture and the calculate_diffraction_pattern         *)
(*           functions, each called twice                                  *)
(*   punto1 : FraunhoferDiffraction of src/punto1/Punto_1.py (sliders)     *)
(* The variable prog says which program a behaviour runs; the variables of *)
(* the other programs keep their constructed values.                       *)
(*                                                                         *)
(* Numbers.  Real quantities are exact rationals: a length is a numerator  *)
(* over a denominator that the operator receives (d), so that halving      *)
(* (side / 2), truncation (int(...)) and comparisons are computed as the   *)
(* code computes them.  A field value of the diffraction engine is a       *)
(* record [num, den]; den = 0 is what IEEE division by zero returns        *)
(* (0/0 = NaN, x/0 = Inf).  Grids are scaled down to N = 2*HalfN samples.  *)
(***************************************************************************)
EXTENDS Integers, Sequences, FiniteSets, TLC

VARIABLES prog, calc, app, sim, fft, dft, patron, fres, ana, dis, frame, punto1

vars == <<prog, calc, app, sim, fft, dft, patron, fres, ana, dis, frame, punto1>>

----------------------------------------------------------------------------
(* Bounds of the model *)

\* half of the grid side: grids have N = 2*HalfN samples per axis
HalfN == 2
\* denominator of the lengths given to the pure rasterizers (1/Den pixel)
Den == 2
\* largest size numerator (radius, side, width, height, separation)
MaxSize == 4
\* how far outside the grid a centre may lie, in numerators
MaxOff == 3

GridN == 2 * HalfN

----------------------------------------------------------------------------
(* Arithmetic helpers *)

Abs(a) == IF a < 0 THEN -a ELSE a

Max2(a, b) == IF a >= b THEN a ELSE b

Min2(a, b) == IF a <= b THEN a ELSE b

\* Python's int(a / b) for b > 0: truncation toward zero
PyInt(a, b) == IF a >= 0 THEN a \div b ELSE -((-a) \div b)

\* the indices Python's slice [start:stop] selects on an axis of length n
PySlice(start, stop, n) ==
    LET norm(i) == IF i < 0 THEN Max2(i + n, 0) ELSE Min2(i, n)
    IN  {i \in 0..(n - 1) : norm(start) <= i /\ i < norm(stop)}

Cells(n) == (0..(n - 1)) \X (0..(n - 1))

\* np.zeros(shape); cells are <<row, column>>
Zeros(n) == [p \in Cells(n) |-> 0]

\* aperture[mask] = 1 on a zero matrix
Ones(n, S) == [p \in Cells(n) |-> IF p \in S THEN 1 ELSE 0]

RECURSIVE SumOver(_, _)
SumOver(f, S) ==
    IF S = {} THEN 0
    ELSE LET p == CHOOSE q \in S : TRUE IN f[p] + SumOver(f, S \ {p})

MaskSum(m) == SumOver(m, DOMAIN m)

\* a function constructor made a table once (TLC otherwise evaluates its
\* body again at every application)
Table(f) == IF f = f THEN f ELSE f

RECURSIVE SumFn(_, _)
SumFn(f, k) == IF k = 0 THEN 0 ELSE f[k - 1] + SumFn(f, k - 1)

\* the cell with flat index i of an n x n array
Cell(i, n) == <<i \div n, i % n>>

----------------------------------------------------------------------------
(* Field values and the discrete Fourier transform.                        *)
(* |F(k)|^2 = sum over cell differences d of A(d) cos(2 pi k.d / n), where *)
(* A is the cyclic autocorrelation of the mask.  For n in {1,2,3,4,6}      *)
(* 2 cos(2 pi j / n) is an integer, so twice the intensity is computed     *)
(* exactly in integers.                                                    *)

Rat(a, b) == [num |-> a, den |-> b]

\* IEEE division u / v of non-negative values: 0/0 = NaN and x/0 = Inf are
\* the values with den = 0
RatDiv(u, v) ==
    IF v.num = 0 THEN Rat(u.num, 0)
    ELSE IF u.den = v.den THEN Rat(u.num, v.num)
    ELSE Rat(u.num * v.den, u.den * v.num)

IsNaN(v) == v.den = 0 /\ v.num = 0

IsInf(v) == v.den = 0 /\ v.num # 0

IsZero(v) == v.den # 0 /\ v.num = 0

IsOne(v) == v.den # 0 /\ v.num = v.den

InUnitInterval(v) == v.den > 0 /\ 0 <= v.num /\ v.num <= v.den

\* a field with every entry 0
FieldAllZero(f) == \A k \in DOMAIN f : IsZero(f[k])

\* a field with every entry in [0,1] and the entry 1 somewhere
FieldMaxIsOne(f) ==
    /\ \E k \in DOMAIN f : IsOne(f[k])
    /\ \A k \in DOMAIN f : InUnitInterval(f[k])

\* a field with an entry strictly between 0 and 1
FieldHasFraction(f) == \E k \in DOMAIN f : 0 < f[k].num /\ f[k].num < f[k].den

TwoCos(j, n) ==
    LET r == j % n IN
    CASE n = 1 -> 2
      [] n = 2 -> IF r = 0 THEN 2 ELSE -2
      [] n = 3 -> IF r = 0 THEN 2 ELSE -1
      [] n = 4 -> <<2, 0, -2, 0>>[r + 1]
      [] n = 6 -> <<2, 1, -1, -2, -1, 1>>[r + 1]

Autocorr(a, n) ==
    Table([d \in Cells(n) |->
        SumFn([i \in 0..(n * n - 1) |->
                  LET p == Cell(i, n) IN
                  IF a[p] = 0 THEN 0
                  ELSE a[p] * a[<<(p[1] + d[1]) % n, (p[2] + d[2]) % n>>]],
              n * n)])

\* 2 * |fft2(a)|^2, indexed by frequency <<row, column>>
TwoAbsFft2Squared(a, n) ==
    LET ac == Autocorr(a, n) IN
    Table([k \in Cells(n) |->
        SumFn([i \in 0..(n * n - 1) |->
                  LET d == Cell(i, n) IN
                  IF ac[d] = 0 THEN 0
                  ELSE ac[d] * TwoCos(k[1] * d[1] + k[2] * d[2], n)],
              n * n)])

\* the inverse shift, which moves entry 0 to index n - n//2
FftShift_inverse(f, n) ==
    [k \in Cells(n) |-> f[<<(k[1] + (n \div 2)) % n, (k[2] + (n \div 2)) % n>>]]

\* fftshift: entry j of the shifted array is entry (j - n//2) mod n
FftShift(f, n) ==
    [k \in Cells(n) |->
        f[<<(k[1] + n - (n \div 2)) % n, (k[2] + n - (n \div 2)) % n>>]]

\* np.abs(fftshift(fft2(aperture)))**2 of a mask whose values are the
\* numerators a[p] over the denominator scale
ShiftedIntensity(a, scale, n) ==
    LET two == FftShift(TwoAbsFft2Squared(a, n), n)
    IN  [k \in Cells(n) |-> Rat(two[k], 2 * scale * scale)]

\* np.max of a field whose values share one denominator
FieldMax(f) ==
    LET top == CHOOSE p \in DOMAIN f : \A q \in DOMAIN f : f[q].num <= f[p].num
    IN  f[top]

----------------------------------------------------------------------------
(* src/punto2/diffraction_calculator.py: the rasterizers.                  *)
(* shape = (n, n); radius, side, widths, heights, separation and centres   *)
(* are numerators over d.                                                  *)

\* the comparison of the circle test inverted
create_circular_aperture_inverted(n, radius, center_x, center_y, d) ==
    Ones(n, {p \in Cells(n) :
               (d * p[2] - center_x) * (d * p[2] - center_x)
             + (d * p[1] - center_y) * (d * p[1] - center_y)
            >= radius * radius})

create_circular_aperture(n, radius, center_x, center_y, d) ==
    Ones(n, {p \in Cells(n) :
               (d * p[2] - center_x) * (d * p[2] - center_x)
             + (d * p[1] - center_y) * (d * p[1] - center_y)
            <= radius * radius})

\* half_side = side/(2d); int(center - half_side) = int((2 c - side)/(2d))
create_square_aperture(n, side_length, center_x, center_y, d) ==
    LET x_start == Max2(0, PyInt(2 * center_x - side_length, 2 * d))
        x_end   == Min2(n, PyInt(2 * center_x + side_length, 2 * d))
        y_start == Max2(0, PyInt(2 * center_y - side_length, 2 * d))
        y_end   == Min2(n, PyInt(2 * center_y + side_length, 2 * d))
    IN  Ones(n, PySlice(y_start, y_end, n) \X PySlice(x_start, x_end, n))

create_single_slit_aperture(n, slit_width, slit_height, center_x, center_y, d) ==
    LET x_start == Max2(0, PyInt(2 * center_x - slit_width, 2 * d))
        x_end   == Min2(n, PyInt(2 * center_x + slit_width, 2 * d))
        y_start == Max2(0, PyInt(2 * center_y - slit_height, 2 * d))
        y_end   == Min2(n, PyInt(2 * center_y + slit_height, 2 * d))
    IN  Ones(n, PySlice(y_start, y_end, n) \X PySlice(x_start, x_end, n))

\* the sum of the two slits returned without clipping
Clip01_missing(m) == m

\* np.clip(aperture, 0, 1)
Clip01(m) == [p \in DOMAIN m |-> Max2(0, Min2(1, m[p]))]

\* center_x -/+ separation/2 = (2 center_x -/+ separation)/(2d): the two
\* slits are rasterized with every numerator doubled, over 2d
create_double_slit_aperture(n, slit_width, slit_height, separation, center_x, center_y, d) ==
    LET slit1 == create_single_slit_aperture(n, 2 * slit_width, 2 * slit_height,
                     2 * center_x - separation, 2 * center_y, 2 * d)
        slit2 == create_single_slit_aperture(n, 2 * slit_width, 2 * slit_height,
                     2 * center_x + separation, 2 * center_y, 2 * d)
        added == [p \in Cells(n) |-> Zeros(n)[p] + slit1[p] + slit2[p]]
    IN  Clip01(added)

----------------------------------------------------------------------------
(* calc: one call of a rasterizer of diffraction_calculator.py with        *)
(* arguments drawn from bounded sets.                                      *)

Sizes == 1..MaxSize

Centers == (-MaxOff)..(GridN * Den + MaxOff)

Mid == (GridN * Den) \div 2

CalcArgs ==
    LET xy == {c \in Centers \X Centers : c[2] = Mid \/ c[2] = c[1]}
    IN       {[fn |-> "circle", size |-> s, size2 |-> 0, sep |-> 0,
               cx |-> c[1], cy |-> c[2]] : s \in Sizes, c \in xy}
        \cup {[fn |-> "square", size |-> s, size2 |-> 0, sep |-> 0,
               cx |-> c[1], cy |-> c[2]] : s \in Sizes, c \in xy}
        \cup {[fn |-> "single_slit", size |-> s[1], size2 |-> s[2], sep |-> 0,
               cx |-> c[1], cy |-> c[2]] : s \in Sizes \X Sizes, c \in xy}
        \cup {[fn |-> "double_slit", size |-> s[1], size2 |-> s[2], sep |-> s[3],
               cx |-> c[1], cy |-> Mid] : s \in Sizes \X Sizes \X Sizes, c \in xy}

Calc_Idle == [pc |-> "idle", args |-> [fn |-> "none"], result |-> <<>>]

Calc_Init == calc \in {[pc |-> "args", args |-> a, result |-> <<>>] : a \in CalcArgs}

Calc_Apply(a) ==
    CASE a.fn = "circle" ->
             create_circular_aperture(GridN, a.size, a.cx, a.cy, Den)
      [] a.fn = "square" ->
             create_square_aperture(GridN, a.size, a.cx, a.cy, Den)
      [] a.fn = "single_slit" ->
             create_single_slit_aperture(GridN, a.size, a.size2, a.cx, a.cy, Den)
      [] a.fn = "double_slit" ->
             create_double_slit_aperture(GridN, a.size, a.size2, a.sep, a.cx, a.cy, Den)

Calc_call ==
    /\ prog = "calc"
    /\ calc.pc = "args"
    /\ calc' = [calc EXCEPT !.pc = "done", !.result = Calc_Apply(calc.args)]
    /\ UNCHANGED <<prog, app, sim, fft, dft, patron, fres, ana, dis, frame, punto1>>

Calc_Next == Calc_call

----------------------------------------------------------------------------
(* sim: DiffractionSimulator of src/punto2/Punto_2.py.                     *)
(* The grid is matrix_size = GridN and center = GridN // 2.  A length is   *)
(* given in half pixels (pixel_size / 2), so a slider value v stands for   *)
(* v / 2 pixels; the eccentricity is a pair <<numerator, denominator>>;    *)
(* a rotation is a pair <<5 cos, 5 sin>>: <<5,0>> is 0 degrees and <<4,3>> *)
(* the angle of the 3-4-5 triangle (36.87 degrees).                        *)

Sim_Scenes == {"Circle + Square", "Ellipse", "Rectangle", "Disorder", "Waving Girl"}

Sim_SliderNames ==
    {"wavelength", "circle_diameter", "square_width", "ellipse_diameter",
     "ellipse_eccentricity", "rect_width", "rect_height",
     "disorder_circle_diameter", "disorder_spacing", "girl_height", "girl_rotation"}

\* the positions each slider takes in the model
Sim_SliderValues ==
    [wavelength |-> {400, 550},
     circle_diameter |-> {4, 24},
     square_width |-> {4, 24},
     ellipse_diameter |-> {4, 8},
     ellipse_eccentricity |-> {<<0, 1>>, <<1, 2>>},
     rect_width |-> {4, 8},
     rect_height |-> {4, 8},
     disorder_circle_diameter |-> {1, 4},
     disorder_spacing |-> {5, 8},
     girl_height |-> {4, 8},
     girl_rotation |-> {<<5, 0>>, <<4, 3>>}]

\* valinit of each slider, which is also the parameter __init__ sets
Sim_valinit ==
    [wavelength |-> 550,
     circle_diameter |-> 4,
     square_width |-> 4,
     ellipse_diameter |-> 4,
     ellipse_eccentricity |-> <<1, 2>>,
     rect_width |-> 4,
     rect_height |-> 8,
     disorder_circle_diameter |-> 4,
     disorder_spacing |-> 8,
     girl_height |-> 8,
     girl_rotation |-> <<5, 0>>]

\* __init__: the parameters before any slider is moved
Sim_params_init ==
    [wavelength |-> 550,
     circle_diameter |-> 4,
     square_width |-> 4,
     ellipse_diameter |-> 4,
     ellipse_eccentricity |-> <<1, 2>>,
     rect_width |-> 4,
     rect_height |-> 8,
     disorder_circle_diameter |-> 4,
     disorder_spacing |-> 8,
     girl_height |-> 8,
     girl_rotation |-> <<5, 0>>]

\* show_*_controls: the slider axes each scene shows
Sim_scene_controls ==
    [s \in Sim_Scenes |->
        CASE s = "Circle + Square" -> {"circle_diameter", "square_width"}
          [] s = "Ellipse" -> {"ellipse_diameter", "ellipse_eccentricity"}
          [] s = "Rectangle" -> {"rect_width", "rect_height"}
          [] s = "Disorder" -> {"disorder_circle_diameter", "disorder_spacing"}
          [] s = "Waving Girl" -> {"girl_height", "girl_rotation"}]

Sq(a) == a * a

\* a separation of half the sum of the radii
Sim_separation_pixels_halved(p) == PyInt(p.circle_diameter + p.square_width, 8)

\* int((circle_diameter/2 + square_width/2) / pixel_size * 1.2)
Sim_separation_pixels(p) == PyInt(3 * (p.circle_diameter + p.square_width), 10)

\* circle_mask: the cells within circle_radius of the circle's centre,
\* separation_pixels left of the grid's centre
Sim_circle_mask(p, n) ==
    LET center == n \div 2
        separation_pixels == Sim_separation_pixels(p)
    IN  {c \in Cells(n) :
            Sq(4 * (c[2] - (center - separation_pixels))) + Sq(4 * (c[1] - center))
              <= Sq(p.circle_diameter)}

\* square_mask: the cells within square_half_width of the square's centre,
\* separation_pixels right of the grid's centre
Sim_square_mask(p, n) ==
    LET center == n \div 2
        separation_pixels == Sim_separation_pixels(p)
    IN  {c \in Cells(n) :
            /\ 4 * Abs(c[2] - (center + separation_pixels)) <= p.square_width
            /\ 4 * Abs(c[1] - center) <= p.square_width}

Sim_create_circle_square_aperture(p, n) ==
    Ones(n, Sim_circle_mask(p, n) \cup Sim_square_mask(p, n))

\* b*b = a*a*(1 - e*e) with a = ellipse_diameter / 4 pixels and e = en/ed
Sim_create_ellipse_aperture(p, n) ==
    LET center == n \div 2
        en == p.ellipse_eccentricity[1]
        ed == p.ellipse_eccentricity[2]
        ellipse_mask ==
            {c \in Cells(n) :
                16 * (Sq(c[2] - center) * (ed * ed - en * en) + Sq(c[1] - center) * ed * ed)
                  <= Sq(p.ellipse_diameter) * (ed * ed - en * en)}
    IN  Ones(n, ellipse_mask)

Sim_create_rectangle_aperture(p, n) ==
    LET center == n \div 2
        rect_mask ==
            {c \in Cells(n) :
                /\ 4 * Abs(c[2] - center) <= p.rect_width
                /\ 4 * Abs(c[1] - center) <= p.rect_height}
    IN  Ones(n, rect_mask)

\* The process-wide generator of np.random: a deterministic generator
\* whose state every draw advances.  A state is [state, draws], draws
\* counting the calls of np.random.uniform; a draw from
\* uniform(-disorder_range, disorder_range) is disorder_range * t / 2 with
\* t = Rng_uniform in {-2, -1, 0, 1}.
Rng_next(rng) == [state |-> (2 * rng.state + 1) % 11, draws |-> rng.draws + 1]

Rng_uniform(rng) == (rng.state % 4) - 2

RECURSIVE Rng_skip(_, _)
Rng_skip(rng, k) == IF k = 0 THEN rng ELSE Rng_skip(Rng_next(rng), k - 1)

\* the test disorder_amount > 0 answered "yes" whatever the amount
Dis_disordered_always(amount) == TRUE

Dis_disordered(amount) == amount > 0

\* create_disorder_aperture with the disorder amount and the generator it
\* draws from; it returns the aperture and the generator as it leaves it.
\* Lengths are in half pixels: spacing_pixels = spacing/2, circle_radius =
\* diameter/4 and disorder_range = amount * spacing * 3/80; the inequality
\* of circle_mask is multiplied by 160^2.
create_disorder_aperture(p, amount, rng, n) ==
    LET center == n \div 2
        positions == <<<<-1, -1>>, <<-1, 0>>, <<-1, 1>>, <<0, -1>>, <<0, 0>>,
                       <<0, 1>>, <<1, -1>>, <<1, 0>>, <<1, 1>>>>
        jitter(k) ==
            IF Dis_disordered(amount)
            THEN LET rx == Rng_skip(rng, 2 * (k - 1) + 1)
                     ry == Rng_next(rx)
                 IN  <<3 * amount * p.disorder_spacing * Rng_uniform(rx),
                       3 * amount * p.disorder_spacing * Rng_uniform(ry)>>
            ELSE <<0, 0>>
        circle_mask(k) ==
            LET ij == positions[k]
                jit == jitter(k)
            IN  {c \in Cells(n) :
                    Sq(160 * (c[2] - center) - 80 * ij[1] * p.disorder_spacing - jit[1])
                  + Sq(160 * (c[1] - center) - 80 * ij[2] * p.disorder_spacing - jit[2])
                      <= Sq(40 * p.disorder_circle_diameter)}
    IN  [aperture |-> Ones(n, UNION {circle_mask(k) : k \in 1..9}),
         rng |-> IF Dis_disordered(amount) THEN Rng_skip(rng, 18) ELSE rng]

\* disorder_amount is 0 and has no control: no position is jittered and the
\* generator is left alone
Sim_create_disorder_aperture(p, n) ==
    create_disorder_aperture(p, 0, [state |-> 0, draws |-> 0], n).aperture

\* height_pixels = girl_height/2; head_radius, body_width and body_height
\* are 0.1, 0.3 and 0.6 of it; the inequalities are multiplied by 200
Sim_create_waving_girl_aperture(p, n) ==
    LET center == n \div 2
        cos5 == p.girl_rotation[1]
        sin5 == p.girl_rotation[2]
        x_rot5(c) == (c[2] - center) * cos5 - (c[1] - center) * sin5
        y_rot5(c) == (c[2] - center) * sin5 + (c[1] - center) * cos5
        head_mask ==
            {c \in Cells(n) :
                Sq(40 * x_rot5(c)) + Sq(40 * y_rot5(c) + 30 * p.girl_height)
                  <= Sq(10 * p.girl_height)}
        body_mask ==
            {c \in Cells(n) :
                /\ Abs(40 * x_rot5(c)) <= 15 * p.girl_height
                /\ Abs(40 * y_rot5(c)) <= 30 * p.girl_height}
    IN  Ones(n, head_mask \cup body_mask)

Sim_create_aperture_matrix(scene, p, n) ==
    CASE scene = "Circle + Square" -> Sim_create_circle_square_aperture(p, n)
      [] scene = "Ellipse" -> Sim_create_ellipse_aperture(p, n)
      [] scene = "Rectangle" -> Sim_create_rectangle_aperture(p, n)
      [] scene = "Disorder" -> Sim_create_disorder_aperture(p, n)
      [] scene = "Waving Girl" -> Sim_create_waving_girl_aperture(p, n)

\* intensity / np.max(intensity), whatever the maximum is
Sim_calculate_diffraction_pattern(aperture, n) ==
    LET intensity == ShiftedIntensity(aperture, 1, n)
        top == FieldMax(intensity)
    IN  [k \in Cells(n) |-> RatDiv(intensity[k], top)]

\* update_pattern: the aperture matrix of the current scene and parameters
\* is created and its diffraction pattern drawn
Sim_update_pattern(s) ==
    [s EXCEPT !.aperture = Sim_create_aperture_matrix(s.current_scene, s.params, GridN)]

\* the intensity update_pattern computes from that aperture and draws
Sim_intensity == Sim_calculate_diffraction_pattern(sim.aperture, GridN)

\* __init__: the parameters, the sliders at valinit, the controls of
\* 'Circle + Square' shown, and the first update_pattern
Sim_Constructed ==
    Sim_update_pattern(
        [current_scene |-> "Circle + Square",
         params |-> Sim_params_init,
         handler |-> "update",
         disorder_amount |-> 0,
         sliders |-> Sim_valinit,
         visible |-> Sim_scene_controls["Circle + Square"],
         aperture |-> <<>>])

\* Slider.set_val(val) and the slider's on_changed handler (update_<name>):
\* the parameter takes the value and update_pattern runs
Sim_set_val(s, name, val) ==
    Sim_update_pattern(
        [s EXCEPT !.sliders = [@ EXCEPT ![name] = val],
                  !.params = [@ EXCEPT ![name] = val]])

\* the user moves a slider that is shown (the wavelength slider always is)
Sim_slider_moved(name) ==
    /\ prog = "sim"
    /\ name = "wavelength" \/ name \in sim.visible
    /\ \E val \in Sim_SliderValues[name] :
          /\ val # sim.sliders[name]
          /\ sim' = [Sim_set_val(sim, name, val) EXCEPT !.handler = "update"]
    /\ UNCHANGED <<prog, calc, app, fft, dft, patron, fres, ana, dis, frame, punto1>>

Sim_update_wavelength == Sim_slider_moved("wavelength")

Sim_update_circle_diameter == Sim_slider_moved("circle_diameter")

Sim_update_square_width == Sim_slider_moved("square_width")

Sim_update_ellipse_diameter == Sim_slider_moved("ellipse_diameter")

Sim_update_ellipse_eccentricity == Sim_slider_moved("ellipse_eccentricity")

Sim_update_rect_width == Sim_slider_moved("rect_width")

Sim_update_rect_height == Sim_slider_moved("rect_height")

Sim_update_disorder_diameter == Sim_slider_moved("disorder_circle_diameter")

Sim_update_disorder_spacing == Sim_slider_moved("disorder_spacing")

Sim_update_girl_height == Sim_slider_moved("girl_height")

Sim_update_girl_rotation == Sim_slider_moved("girl_rotation")

Sim_change_scene ==
    /\ prog = "sim"
    /\ \E label \in Sim_Scenes :
          sim' = Sim_update_pattern(
                     [sim EXCEPT !.current_scene = label,
                                 !.visible = Sim_scene_controls[label],
                                 !.handler = "update"])
    /\ UNCHANGED <<prog, calc, app, fft, dft, patron, fres, ana, dis, frame, punto1>>

\* a reset that leaves the sliders of the other scenes alone
Sim_slider_reset_shown(s, name) ==
    IF /\ s.sliders[name] # Sim_valinit[name]
       /\ name = "wavelength" \/ name \in s.visible
    THEN Sim_set_val(s, name, Sim_valinit[name])
    ELSE s

\* Slider.reset(): set_val(valinit) when the value differs from valinit
Sim_slider_reset(s, name) ==
    IF s.sliders[name] # Sim_valinit[name]
    THEN Sim_set_val(s, name, Sim_valinit[name])
    ELSE s

RECURSIVE Sim_reset_all(_, _)
Sim_reset_all(s, names) ==
    IF names = <<>> THEN s
    ELSE Sim_reset_all(Sim_slider_reset(s, Head(names)), Tail(names))

Sim_reset_values ==
    /\ prog = "sim"
    /\ sim' = Sim_reset_all([sim EXCEPT !.handler = "reset_values"],
                  <<"wavelength", "circle_diameter", "square_width",
                    "ellipse_diameter", "ellipse_eccentricity", "rect_width",
                    "rect_height", "disorder_circle_diameter", "disorder_spacing",
                    "girl_height", "girl_rotation">>)
    /\ UNCHANGED <<prog, calc, app, fft, dft, patron, fres, ana, dis, frame, punto1>>

Sim_Next ==
    \/ Sim_update_wavelength
    \/ Sim_update_circle_diameter
    \/ Sim_update_square_width
    \/ Sim_update_ellipse_diameter
    \/ Sim_update_ellipse_eccentricity
    \/ Sim_update_rect_width
    \/ Sim_update_rect_height
    \/ Sim_update_disorder_diameter
    \/ Sim_update_disorder_spacing
    \/ Sim_update_girl_height
    \/ Sim_update_girl_rotation
    \/ Sim_change_scene
    \/ Sim_reset_values

----------------------------------------------------------------------------
(* app: DiffractionApp of src/diffraction_gui.py.  The lengths typed in    *)
(* the entries are numerators over Den; the resolution and the wavelength  *)
(* are the numbers typed.                                                  *)

\* the pattern divided by its maximum before it is returned
calculate_diffraction_pattern_normalized(aperture_matrix, n, log_scale) ==
    LET intensity == ShiftedIntensity(aperture_matrix, 1, n)
        top == FieldMax(intensity)
    IN  [log1p |-> log_scale,
         intensity |-> [k \in Cells(n) |-> RatDiv(intensity[k], top)]]

\* calculate_diffraction_pattern of diffraction_calculator.py: the squared
\* magnitude of the shifted transform, with log1p applied on request (kept
\* as the flag log1p beside the field it is applied to)
calculate_diffraction_pattern(aperture_matrix, n, log_scale) ==
    [log1p |-> log_scale, intensity |-> ShiftedIntensity(aperture_matrix, 1, n)]

App_Types == {"Circulo", "Cuadrado", "Rendija Simple", "Doble Rendija"}

App_Fields ==
    {"sim_resolution", "lambda_wave", "circ_radius", "sq_side", "slit_width",
     "slit_height", "dslit_width", "dslit_height", "dslit_separation"}

\* the values typed in each entry in the model
App_EntryValues ==
    [f \in App_Fields |->
        CASE f = "sim_resolution" -> {-GridN, 0, GridN}
          [] f = "lambda_wave" -> {-1, 0, 500}
          [] f = "circ_radius" -> {-1, 0, MaxSize}
          [] OTHER -> {0, MaxSize}]

\* update_parameter_ui: the entries built for the selected aperture type
App_param_entries ==
    [t \in App_Types |->
        CASE t = "Circulo" -> {"circ_radius"}
          [] t = "Cuadrado" -> {"sq_side"}
          [] t = "Rendija Simple" -> {"slit_width", "slit_height"}
          [] t = "Doble Rendija" -> {"dslit_width", "dslit_height", "dslit_separation"}]

\* a dimension test that lets zero through
App_not_positive_strict(v) == v < 0

\* the test `<= 0` of run_simulation
App_not_positive(v) == v <= 0

\* run_simulation.  message is the title of the message box it shows, calls
\* the core functions it calls; the plots are redrawn only at the end of a
\* run that raised nothing.
App_run(a) ==
    LET e == a.entries
        resolution == e.sim_resolution
        center == (resolution * Den) \div 2
        rejected(title) == [a EXCEPT !.message = title, !.calls = <<>>]
        shown(fn, aperture_matrix) ==
            [a EXCEPT !.message = "",
                      !.calls = <<fn, "calculate_diffraction_pattern">>,
                      !.aperture_plot = aperture_matrix,
                      !.diffraction_plot = [of |-> aperture_matrix, n |-> resolution,
                                            log_scale |-> TRUE]]
    IN  IF App_not_positive(resolution) THEN rejected("Error")
        ELSE CASE a.aperture_type = "Circulo" ->
                    IF App_not_positive(e.circ_radius) THEN rejected("Error de Entrada")
                    ELSE shown("create_circular_aperture",
                               create_circular_aperture(resolution, e.circ_radius,
                                                        center, center, Den))
               [] a.aperture_type = "Cuadrado" ->
                    IF App_not_positive(e.sq_side) THEN rejected("Error de Entrada")
                    ELSE shown("create_square_aperture",
                               create_square_aperture(resolution, e.sq_side,
                                                      center, center, Den))
               [] a.aperture_type = "Rendija Simple" ->
                    IF App_not_positive(e.slit_width) \/ App_not_positive(e.slit_height)
                    THEN rejected("Error de Entrada")
                    ELSE shown("create_single_slit_aperture",
                               create_single_slit_aperture(resolution, e.slit_width,
                                                           e.slit_height, center, center, Den))
               [] a.aperture_type = "Doble Rendija" ->
                    IF \/ App_not_positive(e.dslit_width)
                       \/ App_not_positive(e.dslit_height)
                       \/ App_not_positive(e.dslit_separation)
                    THEN rejected("Error de Entrada")
                    ELSE shown("create_double_slit_aperture",
                               create_double_slit_aperture(resolution, e.dslit_width,
                                                           e.dslit_height, e.dslit_separation,
                                                           center, center, Den))

\* __init__: the variables at their initial values, the entries of
\* "Circulo" built, empty plots, and the first run_simulation
App_Constructed ==
    App_run([aperture_type |-> "Circulo",
             entries |-> [sim_resolution |-> GridN, lambda_wave |-> 500,
                          circ_radius |-> MaxSize, sq_side |-> MaxSize,
                          slit_width |-> MaxSize, slit_height |-> MaxSize,
                          dslit_width |-> MaxSize, dslit_height |-> MaxSize,
                          dslit_separation |-> MaxSize],
             message |-> "",
             calls |-> <<>>,
             aperture_plot |-> <<>>,
             diffraction_plot |-> <<>>])

\* the pattern drawn in the right-hand plot
App_diffraction_shown ==
    calculate_diffraction_pattern(app.diffraction_plot.of, app.diffraction_plot.n,
                                  app.diffraction_plot.log_scale)

\* the user types a value in an entry that is on screen
App_edit_entry ==
    /\ prog = "app"
    /\ \E f \in App_param_entries[app.aperture_type] \cup {"sim_resolution", "lambda_wave"} :
          \E v \in App_EntryValues[f] :
              /\ v # app.entries[f]
              /\ app' = [app EXCEPT !.entries = [@ EXCEPT ![f] = v]]
    /\ UNCHANGED <<prog, calc, sim, fft, dft, patron, fres, ana, dis, frame, punto1>>

\* the option menu: update_parameter_ui
App_update_parameter_ui ==
    /\ prog = "app"
    /\ \E t \in App_Types : app' = [app EXCEPT !.aperture_type = t]
    /\ UNCHANGED <<prog, calc, sim, fft, dft, patron, fres, ana, dis, frame, punto1>>

\* the button: run_simulation
App_run_simulation ==
    /\ prog = "app"
    /\ app' = App_run(app)
    /\ UNCHANGED <<prog, calc, sim, fft, dft, patron, fres, ana, dis, frame, punto1>>

App_Next ==
    \/ App_edit_entry
    \/ App_update_parameter_ui
    \/ App_run_simulation

----------------------------------------------------------------------------
(* fft: FraunhoferDiffractionFFTMatplotlib of                              *)
(* src/punto2/fraunhofer_fft_gui.py.  Lengths are in micrometres, the      *)
(* unit of the sliders (pixel_size_input is 1 micrometre, so L_input = N). *)
(* The input coordinates linspace(-L/2, L/2, N) are the numerators         *)
(* N*(2i - N + 1) over the denominator 2*(N - 1).  A mask value is a       *)
(* numerator over FFT_Scale, the denominator of the interpolation weights. *)
(* The program runs under plt.show(): an exception raised in a slider      *)
(* callback is reported by the callback registry and set_val returns.      *)

MaxR == 4

MaxDepth == 3

FFT_Scale == 100

FFT_Types ==
    {"rectangular", "circular", "double_slit", "cross", "triangle", "annular", "custom"}

FFT_SliderNames ==
    {"width", "height", "radius", "r_outer", "r_inner", "separation",
     "rotation", "lambda", "N"}

\* the positions each slider takes in the model; a rotation is the angle in
\* degrees, 37 standing for the angle whose cosine and sine are 4/5 and 3/5
FFT_SliderValues ==
    [width |-> {1, 4},
     height |-> {1, 4},
     radius |-> {1, 3},
     r_outer |-> 1..MaxR,
     r_inner |-> 1..(MaxR - 1),
     separation |-> {2, 4},
     rotation |-> {0, 37},
     lambda |-> {400, 630},
     N |-> {2, 6}]

FFT_valinit ==
    [width |-> 4, height |-> 4, radius |-> 3, r_outer |-> 2, r_inner |-> 1,
     separation |-> 2, rotation |-> 0, lambda |-> 630, N |-> 6]

\* sliders_config of _toggle_slider_visibility
FFT_sliders_config ==
    [t \in FFT_Types |->
        CASE t = "rectangular" -> {"width", "height"}
          [] t = "circular" -> {"radius"}
          [] t = "double_slit" -> {"width", "height", "separation"}
          [] t = "cross" -> {"width", "height"}
          [] t = "triangle" -> {"width", "height"}
          [] t = "annular" -> {"r_outer", "r_inner"}
          [] t = "custom" -> {"width", "height"}]

\* numerator of x_coords_input[i], and the denominator of the coordinates
FFT_coord(i, n) == n * (2 * i - n + 1)

FFT_coord_den(n) == 2 * (n - 1)

\* 5*cos and 5*sin of a rotation angle
FFT_cos5(angle) == CASE angle = 0 -> 5 [] angle = 37 -> 4 [] angle = 90 -> 0

FFT_sin5(angle) == CASE angle = 0 -> 0 [] angle = 37 -> 3 [] angle = 90 -> 5

\* a resampling whose interpolation weights are not scaled to sum to one
FFT_rotate_unscaled(a, angle, n) ==
    LET c5 == FFT_cos5(angle)
        s5 == FFT_sin5(angle)
        r10(o) == c5 * (2 * o[1] - (n - 1)) + s5 * (2 * o[2] - (n - 1)) + 5 * (n - 1)
        c10(o) == c5 * (2 * o[2] - (n - 1)) - s5 * (2 * o[1] - (n - 1)) + 5 * (n - 1)
        at(i, j) == IF i \in 0..(n - 1) /\ j \in 0..(n - 1) THEN a[<<i, j>>] ELSE 0
        interp(o) ==
            LET i0 == r10(o) \div 10
                fr == r10(o) % 10
                j0 == c10(o) \div 10
                fc == c10(o) % 10
            IN  ( (10 - fr) * (10 - fc) * at(i0, j0)
                + (10 - fr) * fc * at(i0, j0 + 1)
                + fr * (10 - fc) * at(i0 + 1, j0)
                + fr * fc * at(i0 + 1, j0 + 1) )
    IN  [o \in Cells(n) |->
            IF /\ r10(o) >= 0 /\ r10(o) <= 10 * (n - 1)
               /\ c10(o) >= 0 /\ c10(o) <= 10 * (n - 1)
            THEN interp(o)
            ELSE 0]

\* scipy.ndimage.rotate(aperture, angle, reshape=False, order=1,
\* mode='constant', cval=0.0): the output cell o takes the linear
\* interpolation of the input at M (o - c) + c, c = (n-1)/2, and cval
\* where that point is outside the input.  r10, c10 are 10 times the
\* input row and column.
FFT_rotate(a, angle, n) ==
    LET c5 == FFT_cos5(angle)
        s5 == FFT_sin5(angle)
        r10(o) == c5 * (2 * o[1] - (n - 1)) + s5 * (2 * o[2] - (n - 1)) + 5 * (n - 1)
        c10(o) == c5 * (2 * o[2] - (n - 1)) - s5 * (2 * o[1] - (n - 1)) + 5 * (n - 1)
        at(i, j) == IF i \in 0..(n - 1) /\ j \in 0..(n - 1) THEN a[<<i, j>>] ELSE 0
        interp(o) ==
            LET i0 == r10(o) \div 10
                fr == r10(o) % 10
                j0 == c10(o) \div 10
                fc == c10(o) % 10
            IN  ( (10 - fr) * (10 - fc) * at(i0, j0)
                + (10 - fr) * fc * at(i0, j0 + 1)
                + fr * (10 - fc) * at(i0 + 1, j0)
                + fr * fc * at(i0 + 1, j0 + 1) ) \div 100
    IN  [o \in Cells(n) |->
            IF /\ r10(o) >= 0 /\ r10(o) <= 10 * (n - 1)
               /\ c10(o) >= 0 /\ c10(o) <= 10 * (n - 1)
            THEN interp(o)
            ELSE 0]

\* the cells create_aperture sets to 1.0 for each aperture type; a cell c is
\* <<row, column>>, X_input[c] = x_coords_input[column] and
\* Y_input[c] = y_coords_input[row]
FFT_shape_cells(type, p, n) ==
    LET D == FFT_coord_den(n)
        X(c) == FFT_coord(c[2], n)
        Y(c) == FFT_coord(c[1], n)
        W == p.width_param
        H == p.height_param
    IN  CASE type = "rectangular" ->
               {c \in Cells(n) : 2 * Abs(X(c)) < W * D /\ 2 * Abs(Y(c)) < H * D}
          [] type = "circular" ->
               {c \in Cells(n) : Sq(X(c)) + Sq(Y(c)) <= Sq(p.radius_param * D)}
          [] type = "double_slit" ->
               {c \in Cells(n) :
                   /\ \/ Abs(2 * X(c) + p.separation_param * D) < W * D
                      \/ Abs(2 * X(c) - p.separation_param * D) < W * D
                   /\ 2 * Abs(Y(c)) < H * D}
          [] type = "cross" ->
               {c \in Cells(n) :
                   \/ 2 * Abs(X(c)) < W * D /\ 10 * Abs(Y(c)) < H * D
                   \/ 10 * Abs(X(c)) < W * D /\ 2 * Abs(Y(c)) < H * D}
          [] type = "triangle" ->
               {c \in Cells(n) :
                   /\ 2 * Y(c) >= -(H * D)
                   /\ 2 * Y(c) <= H * D
                   /\ 4 * H * Abs(X(c)) <= W * (H * D - 2 * Y(c))}
          [] type = "annular" ->
               {c \in Cells(n) :
                   /\ Sq(X(c)) + Sq(Y(c)) <= Sq(p.r_outer_param * D)
                   /\ Sq(X(c)) + Sq(Y(c)) >= Sq(p.r_inner_param * D)}
          [] type = "custom" ->
               {c \in Cells(n) :
                   \/ /\ 2 * X(c) > -(W * D) /\ 10 * X(c) < -(3 * W * D)
                      /\ 2 * Y(c) > -(H * D) /\ 2 * Y(c) < H * D
                   \/ /\ 2 * X(c) > -(W * D) /\ 2 * X(c) < W * D
                      /\ 2 * Y(c) > -(H * D) /\ 10 * Y(c) < -(3 * H * D)}

FFT_create_aperture(type, p, n) ==
    LET aperture == [c \in Cells(n) |->
                        IF c \in FFT_shape_cells(type, p, n) THEN FFT_Scale ELSE 0]
    IN  IF p.rotation_angle # 0
        THEN Table(FFT_rotate(aperture, p.rotation_angle, n))
        ELSE Table(aperture)

\* the intensity returned as computed, not divided by its maximum
FFT_calculate_diffraction_pattern_raw(aperture, n) ==
    ShiftedIntensity(aperture, FFT_Scale, n)

FFT_calculate_diffraction_pattern(aperture, n) ==
    LET intensity == ShiftedIntensity(aperture, FFT_Scale, n)
        max_intensity == FieldMax(intensity)
    IN  IF max_intensity.num > 0
        THEN [k \in Cells(n) |-> RatDiv(intensity[k], max_intensity)]
        ELSE intensity

\* fftshift(fftfreq(n, d = pixel_size_input)): entry i is the frequency
\* (i - n//2) / n, in cycles per micrometre
FFT_fftfreq(n) == [i \in 0..(n - 1) |-> Rat(i - (n \div 2), n)]

\* pixel_size_input, in micrometres
FFT_pixel_size_input == 1

\* np.linspace(-L_input/2, L_input/2, n) with L_input = n * pixel_size_input
FFT_linspace(n) ==
    [i \in 0..(n - 1) |-> Rat(FFT_coord(i, n), FFT_coord_den(n))]

\* np.meshgrid(x, y): X[row, col] = x[col] and Y[row, col] = y[row]
FFT_meshgrid(x, y) ==
    [X |-> [c \in (DOMAIN y) \X (DOMAIN x) |-> x[c[2]]],
     Y |-> [c \in (DOMAIN y) \X (DOMAIN x) |-> y[c[1]]]]

\* a change of resolution that rebuilds the frequencies only
FFT_resized_frequencies_only(s, N) ==
    [s EXCEPT !.N = N,
              !.fx_coords = FFT_fftfreq(N),
              !.fy_coords = FFT_fftfreq(N)]

\* the grid of setup_parameters and _update_resolution: L_input, the input
\* coordinates, their meshgrid and the shifted frequencies, all for N
FFT_resized(s, N) ==
    [s EXCEPT !.N = N,
              !.L_input = N * FFT_pixel_size_input,
              !.x_coords_input = FFT_linspace(N),
              !.y_coords_input = FFT_linspace(N),
              !.X_input = FFT_meshgrid(FFT_linspace(N), FFT_linspace(N)).X,
              !.Y_input = FFT_meshgrid(FFT_linspace(N), FFT_linspace(N)).Y,
              !.fx_coords = FFT_fftfreq(N),
              !.fy_coords = FFT_fftfreq(N)]

\* coords * wavelength * z, the wavelength in nanometres and z in metres
FFT_coords_obs(coords, wavelength, z) ==
    [i \in DOMAIN coords |-> Rat(coords[i].num * wavelength * z, coords[i].den)]

\* the tail of update_plot with the observation coordinates left as they
\* were
FFT_redraw_stale_coords(s) ==
    LET p == [s.params EXCEPT !.separation_param = s.sliders.separation,
                              !.rotation_angle = s.sliders.rotation,
                              !.wavelength = s.sliders.lambda]
    IN  [s EXCEPT !.params = p,
                  !.aperture = FFT_create_aperture(s.aperture_type, p, s.N),
                  !.plots = @ + 1,
                  !.center_idx = s.N \div 2,
                  !.plot_x = s.x_coords_obs,
                  !.plot_y = s.y_coords_obs]

\* the tail of update_plot: separation, rotation and wavelength are read
\* from their sliders, the observation coordinates are recomputed, the
\* aperture is created and drawn with its pattern; plot_x and plot_y are the
\* abscissas of the two central profiles and center_idx is the row and the
\* column they are cut through
FFT_redraw(s) ==
    LET p == [s.params EXCEPT !.separation_param = s.sliders.separation,
                              !.rotation_angle = s.sliders.rotation,
                              !.wavelength = s.sliders.lambda]
        x_coords_obs == FFT_coords_obs(s.fx_coords, p.wavelength, s.z)
        y_coords_obs == FFT_coords_obs(s.fy_coords, p.wavelength, s.z)
    IN  [s EXCEPT !.params = p,
                  !.x_coords_obs = x_coords_obs,
                  !.y_coords_obs = y_coords_obs,
                  !.aperture = FFT_create_aperture(s.aperture_type, p, s.N),
                  !.plots = @ + 1,
                  !.center_idx = s.N \div 2,
                  !.plot_x = x_coords_obs,
                  !.plot_y = y_coords_obs]

\* update_plot entered at recursion depth `depth`.  When the inner radius is
\* not below the outer one, r_inner_param = max(1e-6, r_outer_param - 1e-6)
\* and slider_r_inner.set_val(...) calls update_plot again through
\* _update_plot_from_event; beyond the interpreter's recursion limit that
\* call raises RecursionError.
RECURSIVE FFT_update_plot(_, _)
FFT_update_plot(s, depth) ==
    LET p1 == [s.params EXCEPT !.width_param = s.sliders.width,
                               !.height_param = s.sliders.height,
                               !.radius_param = s.sliders.radius,
                               !.r_outer_param = s.sliders.r_outer,
                               !.r_inner_param = s.sliders.r_inner]
        s1 == [s EXCEPT !.params = p1]
    IN  IF /\ p1.r_inner_param >= p1.r_outer_param
           /\ s.aperture_type = "annular"
           /\ "r_inner" \in s.visible
        THEN LET r_inner == Max2(1, p1.r_outer_param - 1)
                 s2 == [s1 EXCEPT !.params.r_inner_param = r_inner,
                                  !.sliders.r_inner = r_inner,
                                  !.corrections = @ + 1]
             IN  IF depth >= MaxDepth
                 THEN FFT_redraw([s2 EXCEPT !.error = "RecursionError"])
                 ELSE FFT_redraw(FFT_update_plot(s2, depth + 1))
        ELSE FFT_redraw(s1)

\* an event handler starts with no error reported and nothing counted;
\* r_inner_read is the inner-radius slider value the handler's update_plot
\* reads first
FFT_event(s) == [s EXCEPT !.error = "", !.corrections = 0, !.plots = 0]

FFT_handle(s) == FFT_update_plot([s EXCEPT !.r_inner_read = s.sliders.r_inner], 0)

\* setup_parameters, create_controls (the sliders at valinit, the controls
\* of 'rectangular' shown) and the first update_plot
FFT_Constructed ==
    FFT_handle(FFT_resized(
        [aperture_type |-> "rectangular",
         N |-> FFT_valinit.N,
         L_input |-> 0,
         x_coords_input |-> <<>>,
         y_coords_input |-> <<>>,
         X_input |-> <<>>,
         Y_input |-> <<>>,
         params |-> [width_param |-> 4, height_param |-> 4, radius_param |-> 3,
                     r_outer_param |-> 2, r_inner_param |-> 1,
                     separation_param |-> 2, rotation_angle |-> 0,
                     wavelength |-> 633],
         z |-> 1,
         fx_coords |-> FFT_fftfreq(FFT_valinit.N),
         fy_coords |-> FFT_fftfreq(FFT_valinit.N),
         x_coords_obs |-> FFT_coords_obs(FFT_fftfreq(FFT_valinit.N), 633, 1),
         y_coords_obs |-> FFT_coords_obs(FFT_fftfreq(FFT_valinit.N), 633, 1),
         sliders |-> FFT_valinit,
         visible |-> FFT_sliders_config["rectangular"],
         aperture |-> <<>>,
         error |-> "",
         corrections |-> 0,
         plots |-> 0,
         center_idx |-> 0,
         plot_x |-> <<>>,
         plot_y |-> <<>>,
         r_inner_read |-> 0], FFT_valinit.N))

\* the pattern update_plot computes from the aperture it created
FFT_intensity == FFT_calculate_diffraction_pattern(fft.aperture, fft.N)

\* the radio buttons: _update_aperture_type
FFT_update_aperture_type ==
    /\ prog = "fft"
    /\ \E type \in FFT_Types :
          fft' = FFT_handle(
                     [FFT_event(fft) EXCEPT !.aperture_type = type,
                                            !.visible = FFT_sliders_config[type]])
    /\ UNCHANGED <<prog, calc, app, sim, dft, patron, fres, ana, dis, frame, punto1>>

\* the user moves one of the sliders wired to _update_plot_from_event; the
\* sliders of rotation and wavelength are always shown
FFT_update_plot_from_event ==
    /\ prog = "fft"
    /\ \E name \in FFT_SliderNames \ {"N"} :
          /\ name \in fft.visible \cup {"rotation", "lambda"}
          /\ \E val \in FFT_SliderValues[name] :
                /\ val # fft.sliders[name]
                /\ fft' = FFT_handle(
                              [FFT_event(fft) EXCEPT !.sliders = [@ EXCEPT ![name] = val]])
    /\ UNCHANGED <<prog, calc, app, sim, dft, patron, fres, ana, dis, frame, punto1>>

\* the user moves the resolution slider: N and the coordinates are rebuilt
FFT_update_resolution ==
    /\ prog = "fft"
    /\ \E val \in FFT_SliderValues.N :
          /\ val # fft.sliders.N
          /\ LET N == IF val % 2 # 0 THEN (val \div 2) * 2 ELSE val
             IN  fft' = FFT_handle(FFT_resized(
                           [FFT_event(fft) EXCEPT !.sliders = [@ EXCEPT !.N = N]],
                           N))
    /\ UNCHANGED <<prog, calc, app, sim, dft, patron, fres, ana, dis, frame, punto1>>

FFT_Next ==
    \/ FFT_update_aperture_type
    \/ FFT_update_plot_from_event
    \/ FFT_update_resolution

----------------------------------------------------------------------------
(* dft: calculate_diffraction_pattern of diffraction_calculator.py called  *)
(* on an aperture matrix of non-negative samples, with either value of     *)
(* log_scale.                                                              *)

\* the largest sample of an aperture matrix
MaxVal == 1

\* the matrix sizes: an even and an odd one
Dft_Sizes == {2, 3}

Dft_Idle == [pc |-> "idle"]

Dft_Args ==
    UNION {[pc : {"args"}, n : {n}, aperture_matrix : [Cells(n) -> 0..MaxVal]] :
              n \in Dft_Sizes}

Dft_Init == dft \in Dft_Args

Dft_call ==
    /\ prog = "dft"
    /\ dft.pc = "args"
    /\ \E log_scale \in BOOLEAN :
          dft' = [pc |-> "done", n |-> dft.n,
                  aperture_matrix |-> dft.aperture_matrix,
                  log_scale |-> log_scale,
                  result |-> calculate_diffraction_pattern(
                                 dft.aperture_matrix, dft.n, log_scale)]
    /\ UNCHANGED <<prog, calc, app, sim, fft, patron, fres, ana, dis, frame, punto1>>

Dft_Next == Dft_call

----------------------------------------------------------------------------
(* patron: calcular_patron_fresnel(u, N) of src/punto3/Punto_3_Fresnel.py. *)
(* N is an integer number of units of 1e-7.  The Fresnel integrals are     *)
(* those of scipy.special.fresnel, an odd function whose values the model  *)
(* takes as inputs: fr[b] is the pair (S, C) at sqrt(N/2) + b*sqrt(2/N),   *)
(* in units of 1e-7, so that an intensity is a number of units of 1e-14.   *)
(* An argument of fresnel is the pair <<a, b>> standing for                *)
(* a*sqrt(N/2) + b*sqrt(2/N).                                              *)

\* the largest |u|
MaxU == 1

\* 1e-6, the Fresnel number below which the Fraunhofer limit is returned
Patron_N_threshold == 10

\* 1e-12, the central intensity below which nothing is divided
Patron_I_threshold == 100

Patron_NValues ==
    {-Patron_N_threshold, 0, Patron_N_threshold - 1, Patron_N_threshold,
     Patron_N_threshold + 1, 2000 * Patron_N_threshold}

\* the values (S, C) the Fresnel integrals take in the model
Patron_SC == [S : {0, 3, 4}, C : {0, 4, 6}]

\* np.sinc(u)**2 at an integer u
Patron_sinc2(u) == IF u = 0 THEN Rat(1, 1) ELSE Rat(0, 1)

\* scipy.special.fresnel at the argument <<a, b>>
fresnel(x, fr) ==
    IF x[1] = 1 THEN fr[x[2]]
    ELSE [S |-> -fr[-x[2]].S, C |-> -fr[-x[2]].C]

\* intensidad_central with the sine integrals left out (a wrong formula)
Patron_central_cosine_only(fr) ==
    LET pos == fresnel(<<1, 0>>, fr)
        neg == fresnel(<<-1, 0>>, fr)
    IN  (pos.C - neg.C) * (pos.C - neg.C)

\* intensidad_central
Patron_central(fr) ==
    LET pos == fresnel(<<1, 0>>, fr)
        neg == fresnel(<<-1, 0>>, fr)
    IN  (pos.C - neg.C) * (pos.C - neg.C) + (pos.S - neg.S) * (pos.S - neg.S)

\* the test N < 1e-6 answered "no" for every N
Patron_degenerate_never(N) == FALSE

Patron_degenerate(N) == N < Patron_N_threshold

\* the test intensidad_central < 1e-12 answered "no" for every intensity
Patron_too_dark_never(central) == FALSE

Patron_too_dark(central) == central < Patron_I_threshold

\* calcular_patron_fresnel; ops are the operations evaluated on the way
calcular_patron_fresnel(u, N, fr) ==
    IF Patron_degenerate(N)
    THEN [branch |-> "fraunhofer", value |-> Patron_sinc2(u), ops |-> {"sinc"}]
    ELSE LET f1 == fresnel(<<1, -u>>, fr)
             f2 == fresnel(<<-1, -u>>, fr)
             intensidad == (f1.C - f2.C) * (f1.C - f2.C) + (f1.S - f2.S) * (f1.S - f2.S)
             intensidad_central == Patron_central(fr)
         IN  IF Patron_too_dark(intensidad_central)
             THEN [branch |-> "fresnel", value |-> Rat(intensidad, 1),
                   ops |-> {"sqrt_N_2", "sqrt_2_N", "fresnel"}]
             ELSE [branch |-> "fresnel",
                   value |-> RatDiv(Rat(intensidad, 1), Rat(intensidad_central, 1)),
                   ops |-> {"sqrt_N_2", "sqrt_2_N", "fresnel", "divide"}]

Patron_Idle == [pc |-> "idle"]

Patron_Init ==
    \E u \in (-MaxU)..MaxU :
        patron \in [pc : {"args"}, u : {u}, N : Patron_NValues,
                    fr : [{-u, 0, u} -> Patron_SC]]

Patron_call ==
    /\ prog = "patron"
    /\ patron.pc = "args"
    /\ patron' = [pc |-> "done", u |-> patron.u, N |-> patron.N, fr |-> patron.fr,
                  result |-> calcular_patron_fresnel(patron.u, patron.N, patron.fr)]
    /\ UNCHANGED <<prog, calc, app, sim, fft, dft, fres, ana, dis, frame, punto1>>

Patron_Next == Patron_call

----------------------------------------------------------------------------
(* fres: graficar_difraccion_interactiva of Punto_3_Fresnel.py.  A         *)
(* position of the slider log_10(N) is named by the Fresnel number         *)
(* N = 10**val it stands for, in units of 1e-7 as above.                   *)

\* the number of slider positions per decade of N
MaxMantissa == 40

\* 0.01 and 100, the ends of the slider, and 10.0, its initial position
Fres_N_min == 100000

Fres_N_max == 1000000000

Fres_N_inicial == 100000000

\* 0.1 and 1.0, the limits between the regimes
Fres_far_limit == 1000000

Fres_near_limit == 10000000

\* the positions the slider takes: m * 10^j * 0.01, the ends, the limits
\* of the regimes and their neighbours
Fres_NValues ==
    LET decades == {Fres_N_min, 10 * Fres_N_min, 100 * Fres_N_min, 1000 * Fres_N_min}
    IN  UNION {{m * d : m \in 1..Min2(MaxMantissa, Fres_N_max \div d)} : d \in decades}
        \cup {Fres_N_max, Fres_N_inicial}
        \cup {Fres_far_limit - 1, Fres_far_limit, Fres_far_limit + 1}
        \cup {Fres_near_limit - 1, Fres_near_limit, Fres_near_limit + 1}

\* the test N < 0.1 made with <=
Fres_regime_inclusive(N) ==
    IF N <= Fres_far_limit THEN "Régimen de Fraunhofer\n(Campo lejano)"
    ELSE IF N < Fres_near_limit THEN "Transición\nFresnel-Fraunhofer"
    ELSE "Régimen de Fresnel\n(Campo cercano)"

\* the if / elif / else of update
Fres_regime(N) ==
    IF N < Fres_far_limit THEN "Régimen de Fraunhofer\n(Campo lejano)"
    ELSE IF N < Fres_near_limit THEN "Transición\nFresnel-Fraunhofer"
    ELSE "Régimen de Fresnel\n(Campo cercano)"

Fres_Idle == [pc |-> "idle"]

\* the figure as first shown: the pattern, the title and the panel are
\* those of N_inicial and the regime text is empty
Fres_Constructed ==
    [pc |-> "shown",
     slider_N |-> Fres_N_inicial,
     linea_fresnel |-> Fres_N_inicial,
     title1 |-> Fres_N_inicial,
     panel |-> [N |-> Fres_N_inicial, ancho_rendija_of |-> Fres_N_inicial,
                regime |-> ""]]

\* update: the user moves the slider
Fres_update ==
    /\ prog = "fres"
    /\ \E N \in Fres_NValues :
          /\ N # fres.slider_N
          /\ fres' = [pc |-> "updated",
                      slider_N |-> N,
                      linea_fresnel |-> N,
                      title1 |-> N,
                      panel |-> [N |-> N, ancho_rendija_of |-> N,
                                 regime |-> Fres_regime(N)]]
    /\ UNCHANGED <<prog, calc, app, sim, fft, dft, patron, ana, dis, frame, punto1>>

Fres_Next == Fres_update

----------------------------------------------------------------------------
(* dis: create_disorder_aperture of Punto_2.py called twice in one process *)
(* with the same circle diameter, spacing, pixel size and matrix size.     *)

\* the largest disorder amount
MaxAmount == 1

Dis_Idle == [pc |-> "idle"]

Dis_Init ==
    dis \in [pc : {"args"},
             p : [disorder_circle_diameter : Sim_SliderValues.disorder_circle_diameter,
                  disorder_spacing : Sim_SliderValues.disorder_spacing],
             disorder_amount : 0..MaxAmount,
             rng0 : [state : 0..10, draws : {0}]]

Dis_first_call ==
    /\ prog = "dis"
    /\ dis.pc = "args"
    /\ LET r == create_disorder_aperture(dis.p, dis.disorder_amount, dis.rng0, GridN)
       IN  dis' = [pc |-> "once", p |-> dis.p, disorder_amount |-> dis.disorder_amount,
                   rng0 |-> dis.rng0, rng |-> r.rng, first |-> r.aperture]
    /\ UNCHANGED <<prog, calc, app, sim, fft, dft, patron, fres, ana, frame, punto1>>

Dis_second_call ==
    /\ prog = "dis"
    /\ dis.pc = "once"
    /\ LET r == create_disorder_aperture(dis.p, dis.disorder_amount, dis.rng, GridN)
       IN  dis' = [pc |-> "twice", p |-> dis.p, disorder_amount |-> dis.disorder_amount,
                   rng0 |-> dis.rng0, rng |-> r.rng, first |-> dis.first,
                   second |-> r.aperture]
    /\ UNCHANGED <<prog, calc, app, sim, fft, dft, patron, fres, ana, frame, punto1>>

Dis_Next == Dis_first_call \/ Dis_second_call

----------------------------------------------------------------------------
(* ana: sinc, bessel_j1_normalized and calculate_intensity of              *)
(* FraunhoferDiffraction, src/punto1/Punto_1.py.  The coordinates x, y and *)
(* the arguments of the helpers are in units of 1e-11, so that 1e-10 is    *)
(* Ana_eps; an argument is a quotient [num, den] and its size is tested    *)
(* without dividing.  The parameter k is the wave number 2*pi/lambda, a    *)
(* non-zero integer, and pi is 25/8.  The values of np.sin(x)/x, j1(x)/x   *)
(* and np.cos(phase) are inputs, in halves; err is the rounding error of   *)
(* the floating-point sum term1 + term2 + term3, in sixteenths.            *)

\* the largest rounding error of the sum
MaxErr == 1

\* 1e-10, the threshold of the helpers and the floor of kr
Ana_eps == 10

\* np.sin(x) / x and j1(x) / x: 0/0 is NaN, elsewhere the library's value v
Ana_over(x, v) == IF x.num = 0 THEN Rat(0, 0) ELSE Rat(v, 2)

\* sinc with no threshold test
sinc_unguarded(x, v) == Ana_over(x, v)

\* np.where(np.abs(x) < 1e-10, 1, np.sin(x) / x)
sinc(x, v) ==
    IF Abs(x.num) < Ana_eps * Abs(x.den) THEN Rat(2, 2) ELSE Ana_over(x, v)

\* np.where(np.abs(x) < 1e-10, 0.5, j1(x) / x)
bessel_j1_normalized(x, v) ==
    IF Abs(x.num) < Ana_eps * Abs(x.den) THEN Rat(1, 2) ELSE Ana_over(x, v)

\* np.sqrt of a perfect square
Ana_sqrt(v) == CHOOSE r \in 0..v : r * r = v

\* kr_safe = np.where(r > 1e-10, kr, 1e-10)
Ana_kr_safe(x, y, P) ==
    LET r == Ana_sqrt(x * x + y * y)
    IN  IF r > Ana_eps THEN P.k * r ELSE Ana_eps

\* the value returned as computed, negative or not
Ana_floor_missing(v) == v

\* np.maximum(0, intensity) of a value that is not NaN
Ana_floor(v) == Max2(0, v)

\* calculate_intensity(x, y) with the parameters P and the library values
\* and rounding error o.  rect_field_term is Rn/4, ring_field_term is Gn/4
\* and term1 + term2 + term3 is (Rn^2 + Gn^2 + Rn*Gn*cos)/16.
calculate_intensity(x, y, P, o) ==
    LET sinc_x == sinc(Rat(P.k * P.a * x, 2 * P.z), o.sin_x)
        sinc_y == sinc(Rat(P.k * P.b * y, 2 * P.z), o.sin_y)
        kr_safe == Ana_kr_safe(x, y, P)
        j_R1 == bessel_j1_normalized(Rat(kr_safe * P.R1, P.z), o.j1_R1)
        j_R2 == bessel_j1_normalized(Rat(kr_safe * P.R2, P.z), o.j1_R2)
        used == {sinc_x, sinc_y} \cup (IF P.R1 > 0 THEN {j_R1} ELSE {})
                                 \cup (IF P.R2 > 0 THEN {j_R2} ELSE {})
        bessel_R1 == IF P.R1 > 0 THEN P.R1 * P.R1 * j_R1.num ELSE 0
        bessel_R2 == IF P.R2 > 0 THEN P.R2 * P.R2 * j_R2.num ELSE 0
        Rn == P.a * P.b * sinc_x.num * sinc_y.num
        Gn == 25 * (bessel_R2 - bessel_R1)
        sum == Rn * Rn + Gn * Gn + Rn * Gn * o.cos + o.err
    IN  IF \E v \in used : IsNaN(v)
        THEN Rat(0, 0)
        ELSE Rat(Ana_floor(P.I_source * P.n * P.n * P.k * P.k * sum),
                 625 * P.z * P.z)

Ana_Idle == [pc |-> "idle"]

\* the observation points: the origin and points at distances 5, 10 and 15
Ana_Points == {<<0, 0>>, <<3, 4>>, <<-6, 8>>, <<0, Ana_eps>>, <<9, -12>>}

Ana_Params ==
    [k : {-1, 2}, a : {1, 2}, b : {1}, R1 : {0, 1}, R2 : {0, 1, 2}, D : {1},
     z : {-1, 2}, n : {1}, I_source : {1}]

Ana_Library ==
    [sin_x : {-1, 0, 2}, sin_y : {0, 2}, j1_R1 : {-1, 1}, j1_R2 : {-1, 1},
     cos : {-2, 1}, err : (-MaxErr)..MaxErr]

Ana_Init ==
    \/ ana \in [pc : {"args"}, fn : {"sinc", "bessel_j1_normalized"},
                x : [num : (-Ana_eps - 1)..(Ana_eps + 1), den : {1}],
                v : {-1, 0, 1, 2}]
    \/ ana \in [pc : {"args"}, fn : {"calculate_intensity"}, point : Ana_Points,
                params : Ana_Params, o : Ana_Library]

Ana_sinc ==
    /\ prog = "ana"
    /\ ana.pc = "args"
    /\ ana.fn = "sinc"
    /\ ana' = [ana EXCEPT !.pc = "done"] @@ [result |-> sinc(ana.x, ana.v)]
    /\ UNCHANGED <<prog, calc, app, sim, fft, dft, patron, fres, dis, frame, punto1>>

Ana_bessel_j1_normalized ==
    /\ prog = "ana"
    /\ ana.pc = "args"
    /\ ana.fn = "bessel_j1_normalized"
    /\ ana' = [ana EXCEPT !.pc = "done"]
                  @@ [result |-> bessel_j1_normalized(ana.x, ana.v)]
    /\ UNCHANGED <<prog, calc, app, sim, fft, dft, patron, fres, dis, frame, punto1>>

Ana_calculate_intensity ==
    /\ prog = "ana"
    /\ ana.pc = "args"
    /\ ana.fn = "calculate_intensity"
    /\ ana' = [ana EXCEPT !.pc = "done"]
                  @@ [result |-> calculate_intensity(ana.point[1], ana.point[2],
                                                     ana.params, ana.o)]
    /\ UNCHANGED <<prog, calc, app, sim, fft, dft, patron, fres, dis, frame, punto1>>

Ana_Next == Ana_sinc \/ Ana_bessel_j1_normalized \/ Ana_calculate_intensity

----------------------------------------------------------------------------
(* frame: create_aperture and calculate_diffraction_pattern of the FFT     *)
(* simulator called twice each on one simulator object, and                *)
(* calculate_diffraction_pattern of diffraction_calculator.py called twice *)
(* on one matrix.  A call returns what it leaves of the object or of the   *)
(* matrix it was given, beside its result.                                 *)

\* create_aperture clearing the rotation angle once it has rotated the mask
FFT_create_aperture_call_clearing_rotation(self) ==
    [self |-> [self EXCEPT !.params.rotation_angle = 0],
     aperture |-> FFT_create_aperture(self.aperture_type, self.params, self.N)]

\* create_aperture: no attribute of self is assigned
FFT_create_aperture_call(self) ==
    [self |-> self,
     aperture |-> FFT_create_aperture(self.aperture_type, self.params, self.N)]

\* calculate_diffraction_pattern of the FFT simulator: intensity is a new
\* array, and so is intensity / max_intensity
FFT_calculate_diffraction_pattern_call(aperture, n) ==
    [aperture |-> aperture,
     intensity |-> FFT_calculate_diffraction_pattern(aperture, n)]

\* calculate_diffraction_pattern of diffraction_calculator.py: log1p returns
\* a new array
calculate_diffraction_pattern_call(aperture_matrix, n, log_scale) ==
    [aperture_matrix |-> aperture_matrix,
     result |-> calculate_diffraction_pattern(aperture_matrix, n, log_scale)]

Frame_Idle == [pc |-> "idle"]

\* the simulator objects the functions are called on
Frame_Selves ==
    {[aperture_type |-> t, N |-> n,
      params |-> [width_param |-> w, height_param |-> 4, radius_param |-> 3,
                  r_outer_param |-> ro, r_inner_param |-> ri,
                  separation_param |-> 2, rotation_angle |-> a,
                  wavelength |-> 630],
      x_coords_input |-> [i \in 0..(n - 1) |-> Rat(FFT_coord(i, n), FFT_coord_den(n))],
      y_coords_input |-> [i \in 0..(n - 1) |-> Rat(FFT_coord(i, n), FFT_coord_den(n))],
      fx_coords |-> FFT_fftfreq(n),
      fy_coords |-> FFT_fftfreq(n)] :
        t \in FFT_Types, n \in FFT_SliderValues.N, w \in FFT_SliderValues.width,
        ro \in FFT_SliderValues.r_outer, ri \in FFT_SliderValues.r_inner,
        a \in FFT_SliderValues.rotation}

Frame_Init ==
    \/ frame \in [pc : {"args"}, fn : {"FFT"}, given : Frame_Selves]
    \/ frame \in [pc : {"args"}, fn : {"calculate_diffraction_pattern"},
                  given : Dft_Args, log_scale : BOOLEAN]

\* create_aperture, first and second call
Frame_create_aperture ==
    /\ prog = "frame"
    /\ frame.fn = "FFT"
    /\ \/ /\ frame.pc = "args"
          /\ LET r == FFT_create_aperture_call(frame.given)
             IN  frame' = [pc |-> "created", fn |-> "FFT", given |-> frame.given,
                           self |-> r.self, first |-> r.aperture]
       \/ /\ frame.pc = "created"
          /\ LET r == FFT_create_aperture_call(frame.self)
             IN  frame' = [frame EXCEPT !.pc = "created twice", !.self = r.self]
                              @@ [second |-> r.aperture]
    /\ UNCHANGED <<prog, calc, app, sim, fft, dft, patron, fres, ana, dis, punto1>>

\* calculate_diffraction_pattern of the simulator on the mask just created,
\* first and second call
Frame_FFT_calculate_diffraction_pattern ==
    /\ prog = "frame"
    /\ frame.fn = "FFT"
    /\ \/ /\ frame.pc = "created twice"
          /\ LET r == FFT_calculate_diffraction_pattern_call(frame.second, frame.self.N)
             IN  frame' = [pc |-> "diffracted", fn |-> "FFT", given |-> frame.second,
                           N |-> frame.self.N, aperture |-> r.aperture,
                           first |-> r.intensity]
       \/ /\ frame.pc = "diffracted"
          /\ LET r == FFT_calculate_diffraction_pattern_call(frame.aperture, frame.N)
             IN  frame' = [frame EXCEPT !.pc = "diffracted twice",
                                        !.aperture = r.aperture]
                              @@ [second |-> r.intensity]
    /\ UNCHANGED <<prog, calc, app, sim, fft, dft, patron, fres, ana, dis, punto1>>

\* calculate_diffraction_pattern of diffraction_calculator.py, first and
\* second call
Frame_calculate_diffraction_pattern ==
    /\ prog = "frame"
    /\ frame.fn = "calculate_diffraction_pattern"
    /\ \/ /\ frame.pc = "args"
          /\ LET r == calculate_diffraction_pattern_call(
                          frame.given.aperture_matrix, frame.given.n, frame.log_scale)
             IN  frame' = [pc |-> "diffracted", fn |-> frame.fn,
                           given |-> frame.given.aperture_matrix,
                           N |-> frame.given.n, log_scale |-> frame.log_scale,
                           aperture |-> r.aperture_matrix, first |-> r.result]
       \/ /\ frame.pc = "diffracted"
          /\ LET r == calculate_diffraction_pattern_call(
                          frame.aperture, frame.N, frame.log_scale)
             IN  frame' = [frame EXCEPT !.pc = "diffracted twice",
                                        !.aperture = r.aperture_matrix]
                              @@ [second |-> r.result]
    /\ UNCHANGED <<prog, calc, app, sim, fft, dft, patron, fres, ana, dis, punto1>>

Frame_Next ==
    \/ Frame_create_aperture
    \/ Frame_FFT_calculate_diffraction_pattern
    \/ Frame_calculate_diffraction_pattern

----------------------------------------------------------------------------
(* FraunhoferDiffraction of src/punto1/Punto_1.py: the sliders and their   *)
(* handler update_params.  A slider value is a whole number of tenths of a *)
(* millimetre; a parameter is the slider value times Punto1_conversion.    *)

\* positions of the R1 slider: 0 .. MaxR1 tenths of a millimetre
MaxR1 == 10

\* the reciprocal of conversions['R1'] = 1e-3: parameter units per slider unit
Punto1_conversion == 1000

\* slider_defs: the ranges of the sliders a, R1 and R2
Punto1_slider_range ==
    [a  |-> {1, 5, 2 * MaxR1},
     R1 |-> 0 .. MaxR1,
     R2 |-> 1 .. 2 * MaxR1]

\* self.params of __init__
Punto1_params ==
    [a  |-> 5 * Punto1_conversion,
     R1 |-> 2 * Punto1_conversion,
     R2 |-> 8 * Punto1_conversion]

\* update_plot: both plots are drawn from self.params; plotted lists the
\* radii each run of the handler drew
Punto1_update_plot(s) ==
    [s EXCEPT !.plotted = Append(@, [R1 |-> s.params.R1, R2 |-> s.params.R2])]

\* a handler that leaves R1 above R2
Punto1_clamped_R1_kept(p) == p.R1

\* self.params['R1'] = self.params['R2']
Punto1_clamped_R1(p) == p.R2

\* update_params(val): every parameter is read from its slider; an inner
\* radius above the outer one is set to the outer one and written to the R1
\* slider, whose set_val calls update_params again before this call goes on
RECURSIVE Punto1_update_params(_, _)
Punto1_update_params(s, depth) ==
    LET p1 == [key \in DOMAIN s.sliders |->
                  s.sliders[key] * Punto1_conversion]
        s1 == [s EXCEPT !.params = p1,
                        !.depth = IF depth > @ THEN depth ELSE @]
    IN  IF p1.R1 > p1.R2
        THEN LET R1 == Punto1_clamped_R1(p1)
                 s2 == [s1 EXCEPT !.params.R1 = R1,
                                  !.sliders.R1 = R1 \div Punto1_conversion,
                                  !.clamps = @ + 1]
             IN  IF depth >= MaxDepth
                 THEN Punto1_update_plot([s2 EXCEPT !.error = "RecursionError"])
                 ELSE Punto1_update_plot(Punto1_update_params(s2, depth + 1))
        ELSE Punto1_update_plot(s1)

Punto1_Idle == [pc |-> "idle"]

\* __init__ and setup_plot: the sliders start at the parameters, and the
\* plots are drawn once
Punto1_Constructed ==
    Punto1_update_plot(
        [pc |-> "shown",
         params |-> Punto1_params,
         sliders |-> [key \in DOMAIN Punto1_params |->
                         Punto1_params[key] \div Punto1_conversion],
         depth |-> 0, clamps |-> 0, error |-> "", plotted |-> << >>])

\* the user moves a slider to another value: its observer update_params runs
Punto1_slider_changed ==
    /\ prog = "punto1"
    /\ \E key \in DOMAIN punto1.sliders :
         \E val \in Punto1_slider_range[key] :
            /\ val # punto1.sliders[key]
            /\ punto1' = Punto1_update_params(
                   [punto1 EXCEPT !.pc = "updated",
                                  !.sliders[key] = val,
                                  !.depth = 0, !.clamps = 0, !.error = "",
                                  !.plotted = << >>], 1)
    /\ UNCHANGED <<prog, calc, app, sim, fft, dft, patron, fres, ana, dis, frame>>

Punto1_Next == Punto1_slider_changed

----------------------------------------------------------------------------
(* The programs together: a behaviour runs one of them *)

Init ==
    /\ prog \in {"calc", "app", "sim", "fft", "dft", "patron", "fres", "dis",
                "ana", "frame", "punto1"}
    /\ IF prog = "calc" THEN Calc_Init ELSE calc = Calc_Idle
    /\ sim = Sim_Constructed
    /\ app = App_Constructed
    /\ fft = FFT_Constructed
    /\ IF prog = "dft" THEN Dft_Init ELSE dft = Dft_Idle
    /\ IF prog = "patron" THEN Patron_Init ELSE patron = Patron_Idle
    /\ IF prog = "fres" THEN fres = Fres_Constructed ELSE fres = Fres_Idle
    /\ IF prog = "ana" THEN Ana_Init ELSE ana = Ana_Idle
    /\ IF prog = "dis" THEN Dis_Init ELSE dis = Dis_Idle
    /\ IF prog = "frame" THEN Frame_Init ELSE frame = Frame_Idle
    /\ punto1 = IF prog = "punto1" THEN Punto1_Constructed ELSE Punto1_Idle

Next ==
    Calc_Next \/ App_Next \/ Sim_Next \/ FFT_Next \/ Dft_Next \/ Patron_Next
    \/ Fres_Next \/ Dis_Next \/ Ana_Next \/ Frame_Next \/ Punto1_Next

Spec == Init /\ [][Next]_vars

InitCalc == Init /\ prog = "calc"

SpecCalc == InitCalc /\ [][Calc_Next]_vars

InitApp == Init /\ prog = "app"

SpecApp == InitApp /\ [][App_Next]_vars

InitSim == Init /\ prog = "sim"

SpecSim == InitSim /\ [][Sim_Next]_vars

InitFFT == Init /\ prog = "fft"

SpecFFT == InitFFT /\ [][FFT_Next]_vars

\* the two simulators that normalize the pattern they compute
InitNormalizing == Init /\ prog \in {"sim", "fft"}

NextNormalizing == Sim_Next \/ FFT_Next

SpecNormalizing == InitNormalizing /\ [][NextNormalizing]_vars

InitPatron == Init /\ prog = "patron"

SpecPatron == InitPatron /\ [][Patron_Next]_vars

InitFres == Init /\ prog = "fres"

SpecFres == InitFres /\ [][Fres_Next]_vars

InitDis == Init /\ prog = "dis"

SpecDis == InitDis /\ [][Dis_Next]_vars

InitAna == Init /\ prog = "ana"

SpecAna == InitAna /\ [][Ana_Next]_vars

InitFrame == Init /\ prog = "frame"

SpecFrame == InitFrame /\ [][Frame_Next]_vars

InitPunto1 == Init /\ prog = "punto1"

SpecPunto1 == InitPunto1 /\ [][Punto1_Next]_vars

InitDft == Init /\ prog = "dft"

SpecDft == InitDft /\ [][Dft_Next]_vars

\* the two programs that draw or return a shifted transform whose centre
\* the profiles are cut through
InitCentered == Init /\ prog \in {"dft", "fft"}

NextCentered == Dft_Next \/ FFT_Next

SpecCentered == InitCentered /\ [][NextCentered]_vars

----------------------------------------------------------------------------
(* Claims about the rasterizers of diffraction_calculator.py *)

Calc_done(f) == prog = "calc" /\ calc.pc = "done" /\ calc.args.fn = f

\* half-width and half-height (numerators over 2*Den) of the rectangle a
\* square or single-slit call asks for
Calc_half_w(a) == a.size

Calc_half_h(a) == IF a.fn = "square" THEN a.size ELSE a.size2

\* C2: create_square_aperture and create_single_slit_aperture set to 1 only
\* cells whose column lies in [center_x - width/2, center_x + width/2] and
\* whose row lies in [center_y - height/2, center_y + height/2], wherever the
\* centre is; every other cell is 0.
C2_OnlyInsideRectangle ==
    (Calc_done("square") \/ Calc_done("single_slit")) =>
        \A p \in Cells(GridN) :
            /\ calc.result[p] \in {0, 1}
            /\ calc.result[p] = 1 =>
                  /\ 2 * calc.args.cx - Calc_half_w(calc.args) <= 2 * Den * p[2]
                  /\ 2 * Den * p[2] <= 2 * calc.args.cx + Calc_half_w(calc.args)
                  /\ 2 * calc.args.cy - Calc_half_h(calc.args) <= 2 * Den * p[1]
                  /\ 2 * Den * p[1] <= 2 * calc.args.cy + Calc_half_h(calc.args)

\* the two single-slit masks a double-slit call is made of
Calc_slit1(a) ==
    create_single_slit_aperture(GridN, 2 * a.size, 2 * a.size2,
        2 * a.cx - a.sep, 2 * a.cy, 2 * Den)

Calc_slit2(a) ==
    create_single_slit_aperture(GridN, 2 * a.size, 2 * a.size2,
        2 * a.cx + a.sep, 2 * a.cy, 2 * Den)

\* C6: create_double_slit_aperture returns the cell-wise union of the single
\* slits centred at center_x - separation/2 and center_x + separation/2: a
\* cell is 1 iff it is 1 in at least one of them, and 0 otherwise (never 2).
C6_DoubleSlitIsUnion ==
    Calc_done("double_slit") =>
        \A p \in Cells(GridN) :
            calc.result[p] =
                (IF Calc_slit1(calc.args)[p] = 1 \/ Calc_slit2(calc.args)[p] = 1
                 THEN 1 ELSE 0)

\* a double slit whose two slits overlap on a cell has been rasterized
C6_Witness ==
    /\ Calc_done("double_slit")
    /\ \E p \in Cells(GridN) :
          /\ Calc_slit1(calc.args)[p] = 1
          /\ Calc_slit2(calc.args)[p] = 1
          /\ calc.result[p] = 1

Calc_centered == calc.args.cx = Mid /\ calc.args.cy = Mid

\* C7: for a centred shape the number of open cells does not decrease when
\* the radius of the circle, the side of the square, or the width or the
\* height of the single slit grows.
C7_PopulationMonotone ==
    /\ (Calc_done("circle") /\ Calc_centered) =>
          \A r2 \in Sizes : calc.args.size <= r2 =>
              MaskSum(calc.result)
                <= MaskSum(create_circular_aperture(GridN, r2, Mid, Mid, Den))
    /\ (Calc_done("square") /\ Calc_centered) =>
          \A s2 \in Sizes : calc.args.size <= s2 =>
              MaskSum(calc.result)
                <= MaskSum(create_square_aperture(GridN, s2, Mid, Mid, Den))
    /\ (Calc_done("single_slit") /\ Calc_centered) =>
          \A s2 \in Sizes :
              /\ calc.args.size <= s2 =>
                    MaskSum(calc.result)
                      <= MaskSum(create_single_slit_aperture(GridN, s2,
                                     calc.args.size2, Mid, Mid, Den))
              /\ calc.args.size2 <= s2 =>
                    MaskSum(calc.result)
                      <= MaskSum(create_single_slit_aperture(GridN,
                                     calc.args.size, s2, Mid, Mid, Den))

\* a centred circle that fits the grid and is strictly smaller, in cells,
\* than the circle of the next radius
C7_Witness ==
    /\ Calc_done("circle") /\ Calc_centered
    /\ calc.args.size < MaxSize
    /\ calc.args.size <= Mid
    /\ 0 < MaskSum(calc.result)
    /\ MaskSum(calc.result)
         < MaskSum(create_circular_aperture(GridN, calc.args.size + 1, Mid, Mid, Den))

----------------------------------------------------------------------------
(* Claims about the masks of every rasterizer *)

\* C5: every mask a rasterizer returns has all its values in [0,1]: the
\* masks of diffraction_calculator.py (circle, square, single and double
\* slit), those of the DiffractionSimulator scenes, and those of the FFT
\* simulator, rotated or not (in exact arithmetic, FFT_Scale standing for 1).
C5_MaskValuesInUnitInterval ==
    /\ (prog = "calc" /\ calc.pc = "done") =>
          \A p \in DOMAIN calc.result : calc.result[p] \in 0..1
    /\ prog = "app" =>
          \A p \in DOMAIN app.aperture_plot : app.aperture_plot[p] \in 0..1
    /\ prog = "sim" =>
          \A p \in DOMAIN sim.aperture : sim.aperture[p] \in 0..1
    /\ prog = "fft" =>
          \A p \in DOMAIN fft.aperture : fft.aperture[p] \in 0..FFT_Scale

\* a mask resampled by a non-zero rotation, with a cell strictly between 0
\* and 1 and a cell equal to 1
C5_Witness ==
    /\ prog = "fft"
    /\ fft.params.rotation_angle # 0
    /\ \E p \in DOMAIN fft.aperture :
          0 < fft.aperture[p] /\ fft.aperture[p] < FFT_Scale
    /\ \E p \in DOMAIN fft.aperture : fft.aperture[p] = FFT_Scale

----------------------------------------------------------------------------
(* Claims about the annulus of the FFT simulator *)

\* the handler that ran last drew an annulus after reading an inner radius
\* above the outer radius
FFT_inverted_annulus ==
    /\ prog = "fft"
    /\ fft.aperture_type = "annular"
    /\ fft.r_inner_read > fft.sliders.r_outer

\* C3: when the inner radius read exceeds the outer radius, update_plot of
\* the FFT simulator with type 'annular' ends without an error and with the
\* inner radius equal to the outer radius, for every pair of slider values.
C3_InvertedAnnulusClampedToOuter ==
    FFT_inverted_annulus =>
        /\ fft.error = ""
        /\ fft.params.r_inner_param = fft.params.r_outer_param

\* C4: an annulus requested with the inner radius above the outer radius
\* is drawn, after the correction, as a mask with at least one transmissive
\* cell and without an error, for every outer radius of the slider.
C4_InvertedAnnulusNotEmpty ==
    FFT_inverted_annulus =>
        /\ fft.error = ""
        /\ MaskSum(fft.aperture) > 0

----------------------------------------------------------------------------
(* Claims about the normalization of the pattern *)

\* C1: for an all-zero mask, calculate_diffraction_pattern of the
\* DiffractionSimulator and of the FFT simulator returns an all-zero field:
\* no entry is NaN or Inf, nothing was divided by zero.
C1_ZeroMaskGivesZeroField ==
    /\ (prog = "sim" /\ MaskSum(sim.aperture) = 0) => FieldAllZero(Sim_intensity)
    /\ (prog = "fft" /\ MaskSum(fft.aperture) = 0) => FieldAllZero(FFT_intensity)

\* C10: for a mask that is not all-zero, the normalized intensity has
\* maximum exactly 1 and every value in [0,1], in the DiffractionSimulator
\* and in the FFT simulator.
C10_NormalizedMaxIsOne ==
    /\ (prog = "sim" /\ MaskSum(sim.aperture) > 0) => FieldMaxIsOne(Sim_intensity)
    /\ (prog = "fft" /\ MaskSum(fft.aperture) > 0) => FieldMaxIsOne(FFT_intensity)

\* a pattern of the FFT simulator with its maximum 1 and with a value
\* strictly between 0 and 1, from a mask that is not all-zero
C10_Witness ==
    /\ prog = "fft"
    /\ MaskSum(fft.aperture) > 0
    /\ FieldMaxIsOne(FFT_intensity)
    /\ FieldHasFraction(FFT_intensity)

----------------------------------------------------------------------------
(* Claims about run_simulation of DiffractionApp *)

\* the resolution or a dimension of the selected aperture type is <= 0
App_invalid_input ==
    \/ app.entries.sim_resolution <= 0
    \/ \E f \in App_param_entries[app.aperture_type] : app.entries[f] <= 0

\* C8: run_simulation with a resolution or a dimension of the selected
\* aperture <= 0 shows an error message, calls no aperture-creation function
\* and no calculate_diffraction_pattern, and leaves both plots as they were.
C8_InvalidInputRejected ==
    [][(App_run_simulation /\ App_invalid_input) =>
          /\ app'.message # ""
          /\ app'.calls = <<>>
          /\ app'.aperture_plot = app.aperture_plot
          /\ app'.diffraction_plot = app.diffraction_plot]_vars

\* run_simulation has rejected a non-positive dimension at a positive
\* resolution, the plots of an earlier run still shown
C8_Witness ==
    /\ prog = "app"
    /\ app.entries.sim_resolution > 0
    /\ \E f \in App_param_entries[app.aperture_type] : app.entries[f] <= 0
    /\ app.message = "Error de Entrada"
    /\ app.calls = <<>>
    /\ MaskSum(app.aperture_plot) > 0

\* C9: run_simulation with lambda_wave <= 0 calls neither an aperture
\* function nor calculate_diffraction_pattern.
C9_NonPositiveWavelengthRejected ==
    [][(App_run_simulation /\ app.entries.lambda_wave <= 0) =>
          app'.calls = <<>>]_vars

----------------------------------------------------------------------------
(* Claims about the shifted transform and its centre *)

Dft_done == prog = "dft" /\ dft.pc = "done"

\* the entry <<idx, idx>> of a field is its largest entry
CentreIsMax(f, idx) ==
    \A k \in DOMAIN f :
        /\ f[k].den = f[<<idx, idx>>].den
        /\ f[k].num <= f[<<idx, idx>>].num

\* C11: for a non-negative mask the zero-frequency component of the shifted
\* transform, the square of the sum of the samples, is at index
\* (N//2, N//2), no entry of the field is larger, and the simulator cuts its
\* two central profiles through the row and the column N//2.
C11_ZeroFrequencyAtCentre ==
    /\ Dft_done =>
          LET c == dft.n \div 2
              total == MaskSum(dft.aperture_matrix)
          IN  /\ dft.result.intensity[<<c, c>>] = Rat(2 * total * total, 2)
              /\ CentreIsMax(dft.result.intensity, c)
    /\ prog = "fft" =>
          /\ fft.center_idx = fft.N \div 2
          /\ CentreIsMax(FFT_intensity, fft.center_idx)

\* an odd-sized mask whose pattern is not flat, log-compressed
C11_Witness ==
    /\ Dft_done
    /\ dft.n = 3
    /\ dft.log_scale
    /\ \E k \in Cells(3) :
          dft.result.intensity[k].num < dft.result.intensity[<<1, 1>>].num

\* 2 sin(2 pi j / n) in units of SinUnitSquared(n)^(1/2)
TwoSin(j, n) ==
    LET r == j % n IN
    CASE n = 1 -> 0
      [] n = 2 -> 0
      [] n = 3 -> <<0, 1, -1>>[r + 1]
      [] n = 4 -> <<0, 2, 0, -2>>[r + 1]
      [] n = 6 -> <<0, 1, 1, 0, -1, -1>>[r + 1]

SinUnitSquared(n) == IF n \in {3, 6} THEN 3 ELSE 1

\* 4 |F(k)|^2 of the transform F(k) = sum_p a[p] exp(-2 pi i k.p / n),
\* from its real and imaginary parts
FourAbsDftSquared(a, n) ==
    [k \in Cells(n) |->
        LET re == SumFn([i \in 0..(n * n - 1) |->
                            LET p == Cell(i, n)
                            IN  a[p] * TwoCos(k[1] * p[1] + k[2] * p[2], n)],
                        n * n)
            im == SumFn([i \in 0..(n * n - 1) |->
                            LET p == Cell(i, n)
                            IN  a[p] * TwoSin(k[1] * p[1] + k[2] * p[2], n)],
                        n * n)
        IN  re * re + SinUnitSquared(n) * im * im]

\* a returned field is the squared magnitude of the shifted transform
IsRawShiftedIntensity(f, a, n) ==
    LET four == FourAbsDftSquared(a, n) IN
    \A k \in Cells(n) :
        /\ f[k].den = 2
        /\ 2 * f[k].num =
              four[<<(k[1] + n - (n \div 2)) % n, (k[2] + n - (n \div 2)) % n>>]

\* C20: calculate_diffraction_pattern returns the squared magnitude of the
\* shifted transform when log_scale is false and log1p of exactly that field
\* when it is true; neither result is divided by its maximum.
C20_LogCompressionOnly ==
    Dft_done =>
        /\ dft.result.log1p = dft.log_scale
        /\ IsRawShiftedIntensity(dft.result.intensity, dft.aperture_matrix, dft.n)

\* a linear-scale result whose maximum is not 1
C20_Witness ==
    /\ Dft_done
    /\ ~dft.log_scale
    /\ \E k \in DOMAIN dft.result.intensity :
          dft.result.intensity[k].num > dft.result.intensity[k].den

----------------------------------------------------------------------------
(* Claims about calcular_patron_fresnel *)

Patron_done == prog = "patron" /\ patron.pc = "done"

\* the intensity at u and at the centre, from the Fresnel integrals at
\* +-sqrt(N/2) - u*sqrt(2/N) and at +-sqrt(N/2)
Patron_intensity_at(b, fr) ==
    LET S == fr[b].S + fr[-b].S
        C == fr[b].C + fr[-b].C
    IN  C * C + S * S

\* C12: for N >= 1e-6 and a normalizing central intensity of at least 1e-12,
\* calcular_patron_fresnel returns exactly 1 at u = 0.
C12_CentreIsOne ==
    (/\ Patron_done
     /\ patron.N >= Patron_N_threshold
     /\ Patron_intensity_at(0, patron.fr) >= Patron_I_threshold
     /\ patron.u = 0)
    => patron.result.value = Rat(Patron_intensity_at(0, patron.fr),
                                 Patron_intensity_at(0, patron.fr))

\* a call at u = 0 whose Fresnel integrals are both non-zero at sqrt(N/2)
C12_Witness ==
    /\ Patron_done
    /\ patron.N = Patron_N_threshold
    /\ patron.u = 0
    /\ patron.fr[0] = [S |-> 3, C |-> 6]
    /\ IsOne(patron.result.value)

\* C13: for every N below 1e-6, zero and negative N included, the function
\* returns sinc(u)^2 and evaluates neither square root nor a Fresnel
\* integral; for every N of at least 1e-6 it takes the Fresnel branch.
C13_DegenerateBranch ==
    Patron_done =>
        IF patron.N < Patron_N_threshold
        THEN /\ patron.result.branch = "fraunhofer"
             /\ patron.result.value = Patron_sinc2(patron.u)
             /\ patron.result.ops = {"sinc"}
        ELSE /\ patron.result.branch = "fresnel"
             /\ "fresnel" \in patron.result.ops

\* a call with N = 0 away from the centre
C13_Witness ==
    /\ Patron_done
    /\ patron.N = 0
    /\ patron.u # 0
    /\ IsZero(patron.result.value)

\* C14: in the Fresnel branch a central intensity below 1e-12 makes the
\* function return the intensity as computed, with no division; otherwise
\* it returns the intensity divided by the central intensity.
C14_NormalizationGuard ==
    (Patron_done /\ patron.N >= Patron_N_threshold) =>
        LET intensidad == Patron_intensity_at(-patron.u, patron.fr)
            central == Patron_intensity_at(0, patron.fr)
        IN  IF central < Patron_I_threshold
            THEN /\ patron.result.value = Rat(intensidad, 1)
                 /\ "divide" \notin patron.result.ops
            ELSE /\ patron.result.value = RatDiv(Rat(intensidad, 1), Rat(central, 1))
                 /\ "divide" \in patron.result.ops

\* a call whose central intensity is zero and whose intensity at u is not
C14_Witness ==
    /\ Patron_done
    /\ patron.N >= Patron_N_threshold
    /\ Patron_intensity_at(0, patron.fr) = 0
    /\ patron.result.value.num > 0
    /\ patron.result.value.den = 1

----------------------------------------------------------------------------
(* Claims about the interactive Fresnel view *)

Fres_updated == prog = "fres" /\ fres.pc = "updated"

\* C15: the regime label update computes is far field for N < 0.1,
\* transition for 0.1 <= N < 1.0 and near field for N >= 1.0; every N gets
\* exactly one of the three labels, 0.1 the transition and 1.0 the near field.
C15_RegimePartition ==
    Fres_updated =>
        LET N == fres.panel.N
            regime == fres.panel.regime
        IN  /\ N < Fres_far_limit <=> regime = "Régimen de Fraunhofer\n(Campo lejano)"
            /\ (Fres_far_limit <= N /\ N < Fres_near_limit)
                   <=> regime = "Transición\nFresnel-Fraunhofer"
            /\ N >= Fres_near_limit <=> regime = "Régimen de Fresnel\n(Campo cercano)"

\* the slider at N = 0.1
C15_Witness ==
    /\ Fres_updated
    /\ fres.panel.N = Fres_far_limit
    /\ fres.panel.regime = "Transición\nFresnel-Fraunhofer"

----------------------------------------------------------------------------
(* Claims about the observation coordinates of the FFT simulator *)

\* coords are the frequencies (i - n//2) / n scaled by wavelength * z
FFT_scaled_frequencies(coords, n, wavelength, z) ==
    /\ DOMAIN coords = 0..(n - 1)
    /\ \A i \in 0..(n - 1) :
          coords[i] = Rat((i - (n \div 2)) * wavelength * z, n)

\* C18: whenever a plot has been drawn, the observation coordinates and the
\* abscissas of the drawn profiles are fx_coords * wavelength * z and
\* fy_coords * wavelength * z for the wavelength of the slider, z and the
\* current N.
C18_ObservationCoordinatesCurrent ==
    prog = "fft" =>
        /\ fft.params.wavelength = fft.sliders.lambda
        /\ FFT_scaled_frequencies(fft.fx_coords, fft.N, 1, 1)
        /\ FFT_scaled_frequencies(fft.fy_coords, fft.N, 1, 1)
        /\ FFT_scaled_frequencies(fft.x_coords_obs, fft.N, fft.params.wavelength, fft.z)
        /\ FFT_scaled_frequencies(fft.y_coords_obs, fft.N, fft.params.wavelength, fft.z)
        /\ fft.plot_x = fft.x_coords_obs
        /\ fft.plot_y = fft.y_coords_obs

\* the wavelength and the resolution both moved away from their first values
C18_Witness ==
    /\ prog = "fft"
    /\ fft.params.wavelength = 400
    /\ fft.N = 2
    /\ fft.plot_x[0] = Rat(-400, 2)
    /\ fft.plots > 0

----------------------------------------------------------------------------
(* Claims about create_disorder_aperture *)

\* the cells within circle_radius of a point of the 3 x 3 lattice of pitch
\* spacing_pixels centred on <<n//2, n//2>> (distances in quarter pixels)
Dis_lattice(p, n) ==
    {c \in Cells(n) :
        \E i \in {-1, 0, 1}, j \in {-1, 0, 1} :
            Sq(4 * (c[2] - (n \div 2)) - 2 * i * p.disorder_spacing)
          + Sq(4 * (c[1] - (n \div 2)) - 2 * j * p.disorder_spacing)
              <= Sq(p.disorder_circle_diameter)}

\* C19: with disorder amount 0 create_disorder_aperture draws nothing from
\* the process-wide generator, and two calls with the same diameter,
\* spacing, pixel size and matrix size return the same mask: the 3 x 3
\* lattice of circles centred on the grid centre.
C19_NoDisorderIsDeterministic ==
    (prog = "dis" /\ dis.disorder_amount = 0) =>
        /\ dis.pc \in {"once", "twice"} =>
              /\ dis.rng = dis.rng0
              /\ dis.first = Ones(GridN, Dis_lattice(dis.p, GridN))
        /\ dis.pc = "twice" => dis.second = dis.first

\* two calls made with disorder amount 0 whose mask has open and opaque cells
C19_Witness ==
    /\ prog = "dis"
    /\ dis.pc = "twice"
    /\ dis.disorder_amount = 0
    /\ \E c \in Cells(GridN) : dis.second[c] = 1
    /\ \E c \in Cells(GridN) : dis.second[c] = 0

----------------------------------------------------------------------------
(* Claims about the analytic simulator of Punto_1.py *)

Ana_done(fn) == prog = "ana" /\ ana.pc = "done" /\ ana.fn = fn

\* C16: calculate_intensity returns a value >= 0 at every observation point
\* for every parameter set with non-zero wavelength and distance: the sum of
\* the three terms is floored at 0 before it is returned.
C16_IntensityNonNegative ==
    Ana_done("calculate_intensity") =>
        /\ ana.result.den > 0
        /\ ana.result.num >= 0

\* both field terms vanish away from the axis and the rounded sum of the
\* three terms is below zero: the value returned is 0
C16_Witness ==
    /\ Ana_done("calculate_intensity")
    /\ ana.o.err < 0
    /\ ana.params.k = 2 /\ ana.params.a = 2 /\ ana.params.z = -1
    /\ ana.o.sin_x = 0
    /\ ana.params.R1 = ana.params.R2
    /\ ana.o.j1_R1 = ana.o.j1_R2
    /\ ana.point = <<9, -12>>
    /\ IsZero(ana.result)

\* C17: sinc returns exactly 1 and bessel_j1_normalized exactly 0.5 for
\* every |x| < 1e-10, x = 0 included; at r = 0 calculate_intensity replaces
\* the argument kr of the annulus by the floor 1e-10 and returns a finite
\* value.
C17_StabilizedHelpers ==
    /\ (Ana_done("sinc") /\ Abs(ana.x.num) < Ana_eps) => ana.result = Rat(2, 2)
    /\ (Ana_done("bessel_j1_normalized") /\ Abs(ana.x.num) < Ana_eps)
           => ana.result = Rat(1, 2)
    /\ (Ana_done("calculate_intensity") /\ ana.point = <<0, 0>>)
           => /\ Ana_kr_safe(0, 0, ana.params) = Ana_eps
              /\ ana.result.den > 0

\* sinc called at 0 with NaN as the value of np.sin(x) / x
C17_Witness ==
    /\ Ana_done("sinc")
    /\ ana.x.num = 0
    /\ IsNaN(Ana_over(ana.x, ana.v))
    /\ IsOne(ana.result)

----------------------------------------------------------------------------
(* Claims about the effects of the rasterizer and of the transform *)

----------------------------------------------------------------------------
(* Claims about the inner-radius correction of the FFT simulator *)

\* C22: every handler's update_plot ends without a RecursionError, and the
\* inner-radius correction re-enters update_plot at most once, whatever the
\* sliders and the aperture type, the outer radius at 1 um included.
C22_UpdatePlotTerminates ==
    prog = "fft" =>
        /\ fft.error = ""
        /\ fft.corrections <= 1

\* C23: whenever create_aperture has run with the type 'annular', the radii
\* satisfy 0 < r_inner_param < r_outer_param and the inner-radius slider
\* shows r_inner_param.
C23_AnnulusRadiiOrdered ==
    (prog = "fft" /\ fft.aperture_type = "annular") =>
        /\ 0 < fft.params.r_inner_param
        /\ fft.params.r_inner_param < fft.params.r_outer_param
        /\ fft.sliders.r_inner = fft.params.r_inner_param

----------------------------------------------------------------------------
(* Claim about the radius clamp of the analytic simulator *)

\* C24: every run of update_plot draws radii with R1 <= R2; when
\* update_params has returned, the R1 slider shows params['R1']; the call
\* of update_params that set_val starts clamps nothing, so that a handler
\* clamps at most once and nests at most two calls deep.
C24_ClampOnceAndAgree ==
    prog = "punto1" =>
        /\ \A i \in DOMAIN punto1.plotted :
              punto1.plotted[i].R1 <= punto1.plotted[i].R2
        /\ punto1.sliders.R1 * Punto1_conversion = punto1.params.R1
        /\ punto1.clamps <= 1
        /\ punto1.depth <= 2
        /\ punto1.error = ""

\* a handler has clamped: the R1 slider was moved above R2, two calls of
\* update_params nested and each drew the plots
C24_Witness ==
    /\ prog = "punto1"
    /\ punto1.pc = "updated"
    /\ punto1.clamps = 1
    /\ punto1.depth = 2
    /\ Len(punto1.plotted) = 2
    /\ punto1.sliders.R1 = punto1.sliders.R2

----------------------------------------------------------------------------
(* Claims about the scenes of the DiffractionSimulator *)

FieldHasNaN(f) == \E k \in DOMAIN f : IsNaN(f[k])

\* C25: after any scene selections and slider changes, the aperture matrix
\* update_pattern passes to calculate_diffraction_pattern has a transmissive
\* cell, and the intensity it draws (the central profile is its centre row)
\* holds no NaN.
C25_ApertureNeverEmpty ==
    prog = "sim" =>
        /\ MaskSum(sim.aperture) > 0
        /\ ~FieldHasNaN(Sim_intensity)

\* a window of the plane wide enough to hold both shapes at the largest
\* slider positions
Sim_window == 8 * GridN

\* C26: in the scene 'Circle + Square', whatever the circle diameter and
\* the square width, no cell is in both the circle mask and the square mask
\* of create_circle_square_aperture, on the grid and on a wider window of
\* the plane alike.
C26_CircleAndSquareDisjoint ==
    (prog = "sim" /\ sim.current_scene = "Circle + Square") =>
        /\ Sim_circle_mask(sim.params, GridN)
             \cap Sim_square_mask(sim.params, GridN) = {}
        /\ Sim_circle_mask(sim.params, Sim_window)
             \cap Sim_square_mask(sim.params, Sim_window) = {}

\* the largest circle and the largest square, both cut by the window, and
\* the scene drawn after a slider was moved
C26_Witness ==
    /\ prog = "sim"
    /\ sim.current_scene = "Circle + Square"
    /\ sim.params.circle_diameter = 24
    /\ sim.params.square_width = 24
    /\ Sim_circle_mask(sim.params, Sim_window) # {}
    /\ Sim_square_mask(sim.params, Sim_window) # {}

----------------------------------------------------------------------------
(* Claim about the sampling grid of the FFT simulator *)

\* C27: whenever a plot is drawn, the six coordinate arrays have length N,
\* X_input, Y_input and the aperture mask have shape N x N, L_input is
\* N * pixel_size_input, and N is even.
C27_GridConsistent ==
    (prog = "fft" /\ fft.plots > 0) =>
        /\ \A coords \in {fft.x_coords_input, fft.y_coords_input,
                          fft.fx_coords, fft.fy_coords,
                          fft.x_coords_obs, fft.y_coords_obs} :
              DOMAIN coords = 0..(fft.N - 1)
        /\ DOMAIN fft.X_input = Cells(fft.N)
        /\ DOMAIN fft.Y_input = Cells(fft.N)
        /\ DOMAIN fft.aperture = Cells(fft.N)
        /\ fft.L_input = fft.N * FFT_pixel_size_input
        /\ fft.N % 2 = 0

\* the resolution slider was moved away from its initial position and the
\* plots were drawn on the new grid
C27_Witness ==
    /\ prog = "fft"
    /\ fft.N # FFT_valinit.N
    /\ fft.sliders.N = fft.N
    /\ fft.plots > 0
    /\ fft.L_input = fft.N
    /\ DOMAIN fft.X_input = Cells(fft.N)

----------------------------------------------------------------------------
(* Claim about the Reset button of the DiffractionSimulator *)

\* C28: reset_values leaves every slider-driven parameter (wavelength,
\* circle diameter, square width, ellipse diameter and eccentricity,
\* rectangle width and height, disorder diameter and spacing, figure height
\* and rotation) at the value __init__ gave it, and leaves current_scene
\* and the set of visible controls as they were.
C28_ResetRestoresDefaults ==
    [][Sim_reset_values =>
          /\ sim'.params = Sim_params_init
          /\ sim'.current_scene = sim.current_scene
          /\ sim'.visible = sim.visible]_vars

\* Reset was clicked in another scene than the first one and left every
\* parameter and every slider, the hidden ones included, at its initial value
C28_Witness ==
    /\ prog = "sim"
    /\ sim.handler = "reset_values"
    /\ sim.current_scene = "Waving Girl"
    /\ sim.params = Sim_params_init
    /\ sim.sliders = Sim_valinit

----------------------------------------------------------------------------
(* Claim about the parameter panel of the Fresnel view *)

\* C29: in every state of the view, the initial display included, the
\* regime label of the parameter panel is the classification of the Fresnel
\* number N whose pattern is plotted, and the slit width shown is the one
\* computed (sqrt(N * lambda * z)) from that same N.
C29_PanelMatchesPlottedN ==
    prog = "fres" =>
        /\ fres.panel.regime = Fres_regime(fres.linea_fresnel)
        /\ fres.panel.ancho_rendija_of = fres.linea_fresnel

====
